---- MODULE Spec2Model ----
(***************************************************************************)
(* Model of the CWM process orchestrator (cwm/service_manager.py): the     *)
(* service registry services.json, the foreground ServiceManager           *)
(* operations, the watcher daemon and its pid lock file, over an abstract  *)
(* OS process table.                                                       *)
(***************************************************************************)
EXTENDS Integers, Sequences, FiniteSets, TLC

\* ------------------------------------------------------------------------
\* Bounds of the model
\* ------------------------------------------------------------------------
\* number of OS processes (children, forks, viewers, watchers) ever spawned
MaxPid == 4
\* longest viewers list register_viewer is driven to
MaxViewers == 2
\* ended processes one call finds otherwise than gone: as a zombie, or with
\* the pid reused by a process the user may not inspect or may not signal
MaxOdd == 1

\* ------------------------------------------------------------------------
\* Values
\* ------------------------------------------------------------------------
\* Python None where an int is expected (pid); 0 stays the int 0
NoneVal == -1

\* project ids a caller passes
ProjectIds == {1, 2}

\* str(project_id): the registry is keyed by the decimal string of the id
str_id(i) == CASE i = 1 -> "1" [] i = 2 -> "2" [] OTHER -> "?"

Pids == 1..MaxPid

\* startup commands as token lists (cmd.split()); << >> is None / ""
CmdNone == << >>
CmdSleep == <<"sleep", "5">>
CmdRm == <<"rm", "-rf", "build">>
CmdEscape == <<"python", "../evil.py">>

\* DANGER_KEYWORDS as word patterns over the tokens of a command: " " is the
\* blank that ends a word (another word follows), "-" the start of a flag
DANGER_KEYWORDS ==
    { <<"rm", " ">>, <<"rm", "-">>, <<"del", " ">>, <<"rd", " ">>, <<"rmdir">>,
      <<"format", " ">>, <<"fdisk">>, <<"mkfs">>,
      <<":(){", ":|:&", "};:">>,
      <<"sudo", "rm">>,
      <<"cwm", " ">> }

\* words that start with "-"
Flags == {"-rf", "-m"}

\* bad in cmd_lower, for the pattern bad found at word i of cmd
found_at(cmd, i, bad) ==
    \A j \in 1..Len(bad) :
        IF bad[j] = " " THEN i + j - 1 <= Len(cmd)
        ELSE IF bad[j] = "-" THEN i + j - 1 <= Len(cmd) /\ cmd[i + j - 1] \in Flags
        ELSE i + j - 1 <= Len(cmd) /\ cmd[i + j - 1] = bad[j]

\* any(bad in cmd_lower for bad in DANGER_KEYWORDS)
dangerous(cmd) == \E bad \in DANGER_KEYWORDS : \E i \in 1..Len(cmd) : found_at(cmd, i, bad)

\* scripts whose path holds ".." or starts with "/" and, resolved against the
\* project root, lies outside it
EscapingScripts == {"../evil.py", "/etc/evil.py"}

\* is_safe_startup_cmd without the check of the script path
is_safe_startup_cmd_no_traversal(cmd) ==
    IF cmd = << >> THEN FALSE
    ELSE IF dangerous(cmd) THEN FALSE
    ELSE TRUE

\* is_safe_startup_cmd(cmd_input, project_root) for one command string
is_safe_startup_cmd(cmd) ==
    IF cmd = << >> THEN FALSE
    ELSE IF dangerous(cmd) THEN FALSE
    ELSE IF Len(cmd) > 1 /\ cmd[1] \in {"python", "python3", "py"}
            /\ ~ (cmd[2] \in Flags) /\ cmd[2] \in EscapingScripts THEN FALSE
    ELSE TRUE

\* rows of projects.json as load_projects returns them (ids 1..N in order)
Row(i, a, c) == [id |-> i, alias |-> a, path |-> a, startup_cmd |-> c]

\* contents projects.json is edited to by the project commands or by hand
ProjectTables ==
    { << Row(1, "api", CmdSleep), Row(2, "web", CmdSleep) >>,
      << Row(1, "api", CmdNone), Row(2, "web", CmdRm) >>,
      << Row(1, "api", CmdEscape) >> }

\* time.time() at the moment an entry is recorded
StartTime == 1

VARIABLES
    registry,   \* content of services.json: str(id) -> ServiceEntry
    projects,   \* content of projects.json: the rows
    procs,      \* OS processes: pid -> "unborn", "alive" or "dead"
    parent,     \* OS process tree: pid -> parent pid (0: none / init)
    nextPid,    \* next pid the OS hands out
    lock,       \* watcher.pid: NoneVal when the file is absent, else the pid
    watcher,    \* watcher processes: pid -> [pc], where the process is in its code
    owner,      \* pid -> id of the project whose log the process writes (0: none)
    logs,       \* per-project log file: "empty" (or absent) or "data"
    last,       \* the call that produced this state and what it returned
    disk,       \* the bytes of services.json: "whole" (the text of registry),
                \* "empty" (truncated by a write under way) or "garbage" (text
                \* that does not parse, or whose root is no mapping)
    document,   \* content of projects.json with its groups, as it is on disk
    backup,     \* content of projects.json.bak
    history,    \* history.json and history.json.bak: [file, bak]
    input       \* the value and the schema a caller hands to validate

vars == <<registry, projects, procs, parent, nextPid, lock, watcher, owner, logs, last,
          disk, document, backup, history, input>>

\* ------------------------------------------------------------------------
\* OS process inspection (psutil)
\* ------------------------------------------------------------------------
\* How the ended processes present themselves to one call: an ended process
\* is gone, or still a zombie, or its pid is reused by a process of another
\* user: "denied" when psutil may not even read its status, "foreign" when
\* the status is readable and only signalling it is refused
OddKinds == {"zombie", "denied", "foreign"}

\* the pids a call can probe: those the registry or the lock file name and
\* those still linked below a parent in the process tree
Probed ==
    {p \in Pids : \/ p = lock
                  \/ parent[p] # 0
                  \/ \E k \in DOMAIN registry :
                        \/ registry[k].pid = p
                        \/ \E i \in 1..Len(registry[k].viewers) : registry[k].viewers[i] = p}

Views(ps) ==
    LET Dead == {p \in Probed : ps[p] = "dead"}
        Odd  == UNION {[S -> OddKinds] : S \in {T \in SUBSET Dead : Cardinality(T) <= MaxOdd}}
    IN {[p \in Pids |-> IF p \in DOMAIN f THEN f[p] ELSE "gone"] : f \in Odd}

\* the process table psutil reads under view v
Table(ps, v) == [p \in Pids |-> IF ps[p] = "dead" THEN v[p] ELSE ps[p]]

\* the processes left after the call
Settle(pt) == [p \in DOMAIN pt |-> IF pt[p] \in {"unborn", "alive"} THEN pt[p] ELSE "dead"]

\* psutil.pid_exists(pid)
pid_exists(pt, pid) == pid \in DOMAIN pt /\ pt[pid] \in {"alive", "zombie", "denied", "foreign"}

\* psutil.Process(pid).status(): the status read, or the exception raised
proc_status(pt, pid) ==
    IF ~ (pid \in DOMAIN pt) THEN "NoSuchProcess"
    ELSE IF pt[pid] \in {"unborn", "gone"} THEN "NoSuchProcess"
    ELSE IF pt[pid] = "denied" THEN "AccessDenied"
    ELSE IF pt[pid] = "zombie" THEN "zombie"
    ELSE "running"

\* Python truth value of a pid field: None and 0 are false
Truthy(pid) == pid # NoneVal /\ pid # 0

\* Process.kill(): SIGKILL ends a live process; a zombie or a process of
\* another user is not affected (the latter raises AccessDenied)
kill(pt, pid) == IF pid \in DOMAIN pt /\ pt[pid] = "alive" THEN [pt EXCEPT ![pid] = "gone"] ELSE pt

\* the OS hands the children of a process that ended to init
Reparent(ps, par) == [q \in DOMAIN par |-> IF par[q] # 0 /\ ps[par[q]] # "alive" THEN 0 ELSE par[q]]

\* Process.children(recursive=True): every process below pid in the tree
RECURSIVE Below(_, _, _, _)
Below(pt, par, S, n) ==
    IF n = 0 THEN S
    ELSE Below(pt, par, S \cup {q \in DOMAIN par : par[q] \in S /\ pid_exists(pt, q)}, n - 1)

children(pt, par, pid) == Below(pt, par, {pid}, MaxPid + 1) \ {pid}

\* ------------------------------------------------------------------------
\* Registry helpers
\* ------------------------------------------------------------------------
\* state = {key: entry}: the other entries are lost
Put_alone(state, key, entry) == [k \in {key} |-> entry]

\* state[key] = entry
Put(state, key, entry) == [k \in DOMAIN state \cup {key} |-> IF k = key THEN entry ELSE state[k]]

\* validate_service_entry: each field kept when of the template's type,
\* else replaced by the default of that type, None for the unions of pid and
\* start_time
validate_service_entry(e) ==
    [ project_id |-> IF e.project_id \in Int THEN e.project_id ELSE 0,
      alias      |-> IF e.alias \in STRING THEN e.alias ELSE "",
      pid        |-> IF e.pid \in Int THEN e.pid ELSE NoneVal,
      viewers    |-> e.viewers,
      status     |-> IF e.status \in STRING THEN e.status ELSE "",
      start_time |-> IF e.start_time \in Int THEN e.start_time ELSE NoneVal,
      log_path   |-> IF e.log_path \in STRING THEN e.log_path ELSE "",
      cmd        |-> e.cmd ]

\* get_services_status without the zombie test
status_entry_zombie_alive(info, pt) ==
    IF info.status = "running" THEN
        IF Truthy(info.pid) THEN
            IF proc_status(pt, info.pid) \in {"NoSuchProcess", "AccessDenied"}
            THEN [info EXCEPT !.status = "stopped", !.pid = NoneVal]
            ELSE info
        ELSE [info EXCEPT !.status = "stopped"]
    ELSE IF info.pid # NoneVal THEN [info EXCEPT !.pid = NoneVal]
    ELSE info

\* get_services_status that empties the viewers of an entry it demotes
status_entry_clears_viewers(info, pt) ==
    IF info.status = "running" THEN
        IF Truthy(info.pid) THEN
            IF proc_status(pt, info.pid) \in {"NoSuchProcess", "AccessDenied", "zombie"}
            THEN [info EXCEPT !.status = "stopped", !.pid = NoneVal, !.viewers = << >>]
            ELSE info
        ELSE [info EXCEPT !.status = "stopped", !.viewers = << >>]
    ELSE IF info.pid # NoneVal THEN [info EXCEPT !.pid = NoneVal]
    ELSE info

\* get_services_status, body of the loop for one entry
status_entry(info, pt) ==
    IF info.status = "running" THEN
        IF Truthy(info.pid) THEN
            IF proc_status(pt, info.pid) \in {"NoSuchProcess", "AccessDenied", "zombie"}
            THEN [info EXCEPT !.status = "stopped", !.pid = NoneVal]
            ELSE info
        ELSE [info EXCEPT !.status = "stopped"]
    ELSE IF info.pid # NoneVal THEN [info EXCEPT !.pid = NoneVal]
    ELSE info

\* get_services_status: the state it returns (and saves when dirty)
status_state(state, pt) == [k \in DOMAIN state |-> status_entry(state[k], pt)]

\* run_watcher_loop, liveness test of one running entry
is_alive(info, pt) == Truthy(info.pid) /\ proc_status(pt, info.pid) = "running"

\* run_watcher_loop, body of the loop for one entry
watch_entry(info, pt) ==
    IF info.status = "running" /\ ~ is_alive(info, pt)
    THEN [info EXCEPT !.status = "stopped", !.pid = NoneVal]
    ELSE info

watch_state(state, pt) == [k \in DOMAIN state |-> watch_entry(state[k], pt)]

\* active_count counting every entry whose status is running
active_count_by_status(state, pt) ==
    Cardinality({k \in DOMAIN state : state[k].status = "running"})

active_count(state, pt) ==
    Cardinality({k \in DOMAIN state : state[k].status = "running" /\ is_alive(state[k], pt)})

\* ------------------------------------------------------------------------
\* Results of calls
\* ------------------------------------------------------------------------
EmptyMap == [k \in {} |-> 0]

Result(op, id, ok, msg, pid, trace, ret, seen) ==
    [op |-> op, id |-> id, ok |-> ok, msg |-> msg, pid |-> pid, trace |-> trace, ret |-> ret,
     seen |-> seen]

\* the state was produced by a step that is no ServiceManager call
NoCall == Result("none", 0, FALSE, "", NoneVal, << >>, EmptyMap, {})

KillEv(pid, role) == [ev |-> "kill", pid |-> pid, role |-> role]
SaveEv == [ev |-> "save", pid |-> 0, role |-> ""]

\* a watcher process that has not yet run its first statement
NewWatcher == [pc |-> "spawned"]

\* ------------------------------------------------------------------------
\* stop_project: the two kill loops, as (process table, kills issued)
\* ------------------------------------------------------------------------
\* stop_project without step 1: the viewer terminals are left open
kill_viewers_none(viewers, pt, trace) == [pt |-> pt, trace |-> trace]

\* step 1: for v_pid in viewers: if pid_exists(v_pid): Process(v_pid).kill()
RECURSIVE kill_viewers(_, _, _)
kill_viewers(viewers, pt, trace) ==
    IF viewers = << >> THEN [pt |-> pt, trace |-> trace]
    ELSE LET v == Head(viewers)
         IN IF pid_exists(pt, v)
            THEN kill_viewers(Tail(viewers), kill(pt, v), Append(trace, KillEv(v, "viewer")))
            ELSE kill_viewers(Tail(viewers), pt, trace)

\* step 2, inner loop: for child in parent.children(recursive=True): child.kill()
RECURSIVE kill_children(_, _, _)
kill_children(S, pt, trace) ==
    IF S = {} THEN [pt |-> pt, trace |-> trace]
    ELSE LET c == CHOOSE x \in S : \A y \in S : x <= y
         IN kill_children(S \ {c}, kill(pt, c), Append(trace, KillEv(c, "child")))

\* step 2: the main process and its children; raised is the exception that
\* leaves the try block uncaught ("" when none does)
kill_main(main_pid, pt, par, trace) ==
    IF ~ Truthy(main_pid) THEN [pt |-> pt, trace |-> trace, raised |-> ""]
    ELSE IF ~ pid_exists(pt, main_pid) THEN [pt |-> pt, trace |-> trace, raised |-> ""]
    ELSE LET kc == kill_children(children(pt, par, main_pid), pt, trace)
             tr == Append(kc.trace, KillEv(main_pid, "main"))
         IN IF kc.pt[main_pid] \in {"denied", "foreign"}
            THEN [pt |-> kc.pt, trace |-> tr, raised |-> "AccessDenied"]
            ELSE [pt |-> kill(kc.pt, main_pid), trace |-> tr, raised |-> ""]

\* stop_project with step 2 before step 1
stop_kills_main_first(info, pt, par, trace) ==
    LET km == kill_main(info.pid, pt, Reparent(pt, par), trace)
        kv == kill_viewers(info.viewers, km.pt, km.trace)
    IN [pt |-> kv.pt, trace |-> kv.trace, raised |-> km.raised]

\* stop_project, steps 1 and 2 in the order of the code
stop_kills(info, pt, par, trace) ==
    LET kv == kill_viewers(info.viewers, pt, trace)
    IN kill_main(info.pid, kv.pt, Reparent(kv.pt, par), kv.trace)

\* register_viewer appending without the membership test
register_viewer_append(state, id, viewer_pid) ==
    LET sid == str_id(id)
    IN IF sid \in DOMAIN state
       THEN [state EXCEPT ![sid].viewers = Append(@, viewer_pid)]
       ELSE state

\* register_viewer on the loaded state: the state it leaves in the file
register_viewer(state, id, viewer_pid) ==
    LET sid == str_id(id)
    IN IF sid \in DOMAIN state
       THEN IF \E i \in 1..Len(state[sid].viewers) : state[sid].viewers[i] = viewer_pid
            THEN state
            ELSE [state EXCEPT ![sid].viewers = Append(@, viewer_pid)]
       ELSE state

\* _ensure_watcher_running: TRUE when it returns without spawning
watcher_found(lk, pt) == lk # NoneVal /\ pid_exists(pt, lk)

\* no projects.json in the bank; also where the orchestrator alone is looked
\* at, the rows that load_projects hands to it being in the variable projects
NoDocument == [present |-> FALSE]

\* neither history.json nor history.json.bak in the bank
NoHistory == [file |-> NoDocument, bak |-> NoDocument]

\* no call of validate under way
NoInput == [value |-> NoneVal, schema |-> NoneVal]

\* ------------------------------------------------------------------------
\* Initial state: ServiceManager() on a fresh bank (_ensure_paths)
\* ------------------------------------------------------------------------
Init ==
    /\ registry = EmptyMap
    /\ projects \in ProjectTables
    /\ procs = [p \in Pids |-> "unborn"]
    /\ parent = [p \in Pids |-> 0]
    /\ nextPid = 1
    /\ lock = NoneVal
    /\ watcher = EmptyMap
    /\ owner = [p \in Pids |-> 0]
    /\ logs = [i \in ProjectIds |-> "empty"]
    /\ last = NoCall
    /\ disk = "whole"
    /\ document = NoDocument
    /\ backup = NoDocument
    /\ history = NoHistory
    /\ input = NoInput

\* ------------------------------------------------------------------------
\* ServiceManager operations (foreground calls)
\* ------------------------------------------------------------------------
\* the saves a call made, get_services_status first
Saves(dirty) == IF dirty THEN <<SaveEv>> ELSE << >>

\* the test against a status no entry ever has
already_running_miscased(state, sid) == sid \in DOMAIN state /\ state[sid].status = "Running"

\* start_project: if str_id in state and state[str_id]["status"] == "running"
already_running(state, sid) == sid \in DOMAIN state /\ state[sid].status = "running"

\* stop_project reporting success for an id without an entry
stop_not_found_ok(id, dirty, seen) ==
    Result("stop", id, TRUE, "Stopped and closed terminals.", NoneVal, Saves(dirty), EmptyMap, seen)

\* stop_project: what it returns when str_id is not in state
stop_not_found(id, dirty, seen) ==
    Result("stop", id, FALSE, "Not found.", NoneVal, Saves(dirty), EmptyMap, seen)

\* stop_project, step 3: the entry it saves
stopped_entry(info) == [info EXCEPT !.status = "stopped", !.pid = NoneVal, !.viewers = << >>]

\* what the process table held, during the call, at the pids of the running
\* entries
Seen(state, pt) ==
    {<<state[k].pid, pt[state[k].pid]>> :
        k \in {j \in DOMAIN state : state[j].status = "running" /\ state[j].pid \in DOMAIN pt}}

get_services_status(v) ==
    /\ last = NoCall
    /\ disk = "whole"
    /\ UNCHANGED <<disk, document, backup, history, input>>
    /\ LET pt    == Table(procs, v)
           state == status_state(registry, pt)
           dirty == state # registry
       IN /\ registry' = IF dirty THEN state ELSE registry
          /\ last' = Result("status", 0, TRUE, "", NoneVal, Saves(dirty), state, Seen(registry, pt))
          /\ UNCHANGED <<projects, procs, parent, nextPid, lock, watcher, owner, logs>>

\* _save_state(data): the file after the call. A write that fails (the file
\* cannot be opened for writing) is swallowed by 'except: pass' and leaves the
\* file as it was
save_state(file, data, ok) == IF ok THEN data ELSE file

\* start_project; spawn_ok, save_ok and watch_ok: whether the Popen of the
\* child, the write of the registry and the Popen of the watcher succeed
start_project(id, spawn_ok, save_ok, watch_ok, v) ==
    /\ last = NoCall
    /\ disk = "whole"
    /\ UNCHANGED <<disk, document, backup, history, input>>
    /\ LET pt    == Table(procs, v)
           state == status_state(registry, pt)
           dirty == state # registry
           seen  == Seen(registry, pt)
           sid   == str_id(id)
           found == {i \in 1..Len(projects) : projects[i].id = id}
           proj  == projects[CHOOSE i \in found : \A j \in found : i <= j]
           child == nextPid
           entry == validate_service_entry(
                       [project_id |-> id, alias |-> proj.alias, pid |-> child,
                        viewers |-> << >>, status |-> "running", start_time |-> StartTime,
                        log_path |-> sid, cmd |-> proj.startup_cmd])
           found_w == watcher_found(lock, pt)
           fail(msg) ==
               /\ registry' = save_state(registry, state, save_ok)
               /\ last' = Result("start", id, FALSE, msg, NoneVal, Saves(dirty), EmptyMap, seen)
               /\ UNCHANGED <<projects, procs, parent, nextPid, lock, watcher, owner, logs>>
       IN IF already_running(state, sid) THEN fail("Already running.")
          ELSE IF found = {} THEN fail("Project ID not found.")
          ELSE IF proj.startup_cmd = << >> THEN fail("No startup command.")
          ELSE IF ~ is_safe_startup_cmd(proj.startup_cmd)
               THEN fail("SECURITY BLOCK: Command deemed unsafe.")
          ELSE IF ~ spawn_ok
               THEN /\ registry' = save_state(registry, state, save_ok)
                    /\ logs' = [logs EXCEPT ![id] = "empty"]
                    /\ last' = Result("start", id, FALSE, "Popen error", NoneVal, Saves(dirty),
                                      EmptyMap, seen)
                    /\ UNCHANGED <<projects, procs, parent, nextPid, lock, watcher, owner>>
          ELSE IF ~ found_w /\ ~ watch_ok
               THEN \* the Popen of the watcher raises: the except clause returns
                    \* (False, str(e)) after the child was started and saved
                    /\ child <= MaxPid
                    /\ logs' = [logs EXCEPT ![id] = "empty"]
                    /\ registry' = save_state(registry, Put(state, sid, entry), save_ok)
                    /\ owner' = [owner EXCEPT ![child] = id]
                    /\ procs' = [procs EXCEPT ![child] = "alive"]
                    /\ nextPid' = child + 1
                    /\ last' = Result("start", id, FALSE, "Popen error (watcher)", NoneVal,
                                      Saves(dirty) \o <<SaveEv>>, EmptyMap, seen)
                    /\ UNCHANGED <<projects, parent, lock, watcher>>
          ELSE /\ child + (IF found_w THEN 0 ELSE 1) <= MaxPid
               /\ logs' = [logs EXCEPT ![id] = "empty"]
               /\ registry' = save_state(registry, Put(state, sid, entry), save_ok)
               /\ owner' = [owner EXCEPT ![child] = id]
               /\ IF found_w
                  THEN /\ procs' = [procs EXCEPT ![child] = "alive"]
                       /\ nextPid' = child + 1
                       /\ UNCHANGED watcher
                  ELSE /\ procs' = [procs EXCEPT ![child] = "alive", ![child + 1] = "alive"]
                       /\ nextPid' = child + 2
                       /\ watcher' = Put(watcher, child + 1, NewWatcher)
               /\ last' = Result("start", id, TRUE, "Started", child, Saves(dirty) \o <<SaveEv>>,
                                 EmptyMap, seen)
               /\ UNCHANGED <<projects, parent, lock>>

\* ServiceManager.register_viewer with the pid of a terminal the caller opened
RegisterViewer(id, viewer_pid) ==
    /\ last = NoCall
    /\ disk = "whole"
    /\ UNCHANGED <<disk, document, backup, history, input>>
    /\ LET state == register_viewer(registry, id, viewer_pid)
       IN /\ str_id(id) \in DOMAIN registry => Len(state[str_id(id)].viewers) <= MaxViewers
          /\ registry' = state
          /\ last' = Result("register", id, TRUE, "", viewer_pid, Saves(state # registry),
                            EmptyMap, {})
          /\ UNCHANGED <<projects, procs, parent, nextPid, lock, watcher, owner, logs>>

\* 'cwm run launch': opens a log terminal and registers it as a viewer
launch_terminal(id) ==
    /\ last = NoCall
    /\ disk = "whole"
    /\ UNCHANGED <<disk, document, backup, history, input>>
    /\ LET v == nextPid
           state == register_viewer(registry, id, v)
       IN /\ v <= MaxPid
          /\ \E i \in 1..Len(projects) : projects[i].id = id
          /\ str_id(id) \in DOMAIN registry => Len(state[str_id(id)].viewers) <= MaxViewers
          /\ procs' = [procs EXCEPT ![v] = "alive"]
          /\ nextPid' = v + 1
          /\ registry' = state
          /\ last' = Result("register", id, TRUE, "", v, Saves(state # registry), EmptyMap, {})
          /\ UNCHANGED <<projects, parent, lock, watcher, owner, logs>>

stop_project(id, v) ==
    /\ last = NoCall
    /\ disk = "whole"
    /\ UNCHANGED <<disk, document, backup, history, input>>
    /\ LET pt    == Table(procs, v)
           state == status_state(registry, pt)
           dirty == state # registry
           seen  == Seen(registry, pt)
           sid   == str_id(id)
       IN IF ~ (sid \in DOMAIN state)
          THEN /\ registry' = IF dirty THEN state ELSE registry
               /\ last' = stop_not_found(id, dirty, seen)
               /\ UNCHANGED <<projects, procs, parent, nextPid, lock, watcher, owner, logs>>
          ELSE LET info == state[sid]
                   km == stop_kills(info, pt, parent, Saves(dirty))
               IN /\ procs' = Settle(km.pt)
                  /\ parent' = Reparent(km.pt, parent)
                  /\ IF km.raised # ""
                     THEN /\ registry' = IF dirty THEN state ELSE registry
                          /\ last' = Result("stop", id, FALSE, km.raised, NoneVal, km.trace,
                                            EmptyMap, seen)
                     ELSE /\ registry' = [state EXCEPT ![sid] = stopped_entry(info)]
                          /\ last' = Result("stop", id, TRUE, "Stopped and closed terminals.",
                                            NoneVal, Append(km.trace, SaveEv), EmptyMap, seen)
                  /\ UNCHANGED <<projects, nextPid, lock, watcher, owner, logs>>

\* ------------------------------------------------------------------------
\* Watcher daemon (run_watcher_loop), one process per pid in DOMAIN watcher
\* ------------------------------------------------------------------------
WatcherPids == DOMAIN watcher

\* ACTIVE: the process runs and is inside its polling loop
Active(w) == procs[w] = "alive" /\ watcher[w].pc = "sleeping"

\* 1. Register Self: write the own pid to watcher.pid
WatcherStart(w) ==
    /\ last = NoCall
    /\ UNCHANGED <<disk, document, backup, history, input>>
    /\ w \in DOMAIN watcher
    /\ procs[w] = "alive"
    /\ watcher[w].pc = "spawned"
    /\ lock' = w
    /\ watcher' = [watcher EXCEPT ![w].pc = "sleeping"]
    /\ last' = NoCall
    /\ UNCHANGED <<registry, projects, procs, parent, nextPid, owner, logs>>

\* one iteration of the loop: 2. sleep, read the state and probe every running
\* entry; 3. save when dirty; 4. leave the loop when nothing is active, and in
\* the finally block unlink watcher.pid if it exists
WatcherIterate(w, v) ==
    /\ last = NoCall
    /\ disk = "whole"
    /\ UNCHANGED <<disk, document, backup, history, input>>
    /\ w \in DOMAIN watcher
    /\ procs[w] = "alive"
    /\ watcher[w].pc = "sleeping"
    /\ LET pt    == Table(procs, v)
           state == watch_state(registry, pt)
           dirty == state # registry
       IN /\ registry' = IF dirty THEN state ELSE registry
          /\ IF active_count(registry, pt) = 0
             THEN /\ watcher' = [watcher EXCEPT ![w].pc = "done"]
                  /\ procs' = [procs EXCEPT ![w] = "dead"]
                  /\ lock' = NoneVal
             ELSE UNCHANGED <<watcher, procs, lock>>
    /\ last' = NoCall
    /\ UNCHANGED <<projects, parent, nextPid, owner, logs>>

\* ------------------------------------------------------------------------
\* Environment: the OS and the other commands
\* ------------------------------------------------------------------------
\* a process ends on its own or is killed from outside; what a project's
\* process wrote to its redirected stdout is in the log by then
Die(p) ==
    /\ last = NoCall
    /\ UNCHANGED <<disk, document, backup, history, input>>
    /\ procs[p] = "alive"
    /\ procs' = [procs EXCEPT ![p] = "dead"]
    /\ parent' = Reparent(procs', parent)
    /\ logs' = IF owner[p] # 0 THEN [logs EXCEPT ![owner[p]] = "data"] ELSE logs
    /\ last' = NoCall
    /\ UNCHANGED <<registry, projects, nextPid, lock, watcher, owner>>

\* a project's process (shell=True) starts a process of its own
Fork(p) ==
    /\ last = NoCall
    /\ UNCHANGED <<disk, document, backup, history, input>>
    /\ procs[p] = "alive"
    /\ owner[p] # 0
    /\ nextPid <= MaxPid
    /\ procs' = [procs EXCEPT ![nextPid] = "alive"]
    /\ parent' = [parent EXCEPT ![nextPid] = p]
    /\ owner' = [owner EXCEPT ![nextPid] = owner[p]]
    /\ nextPid' = nextPid + 1
    /\ last' = NoCall
    /\ UNCHANGED <<registry, projects, lock, watcher, logs>>

\* projects.json is rewritten by a project command or by hand
EditProjects(t) ==
    /\ last = NoCall
    /\ UNCHANGED <<disk, document, backup, history, input>>
    /\ t # projects
    /\ projects' = t
    /\ last' = NoCall
    /\ UNCHANGED <<registry, procs, parent, nextPid, lock, watcher, owner, logs>>

\* pids a caller of register_viewer holds: the terminals launch_terminal opened
ViewerPids == {p \in Pids : p < nextPid /\ owner[p] = 0 /\ ~ (p \in WatcherPids)}

\* the caller takes the result of a call (the command prints it and exits)
\* before anything else happens; a call in the middle of a write has no result
\* yet
Return ==
    /\ last # NoCall
    /\ last.op # "saving"
    /\ UNCHANGED <<disk, document, backup, history, input>>
    /\ last' = NoCall
    /\ UNCHANGED <<registry, projects, procs, parent, nextPid, lock, watcher, owner, logs>>

Next ==
    \/ Return
    \/ \E v \in Views(procs) : get_services_status(v)
    \/ \E id \in ProjectIds, spawn_ok \in BOOLEAN, v \in Views(procs) :
          start_project(id, spawn_ok, TRUE, TRUE, v)
    \/ \E id \in ProjectIds, p \in ViewerPids : RegisterViewer(id, p)
    \/ \E id \in ProjectIds : launch_terminal(id)
    \/ \E id \in ProjectIds, v \in Views(procs) : stop_project(id, v)
    \/ \E w \in Pids : WatcherStart(w)
    \/ \E w \in Pids, v \in Views(procs) : WatcherIterate(w, v)
    \/ \E p \in Pids : Die(p)
    \/ \E p \in Pids : Fork(p)
    \/ \E t \in ProjectTables : EditProjects(t)

Spec == Init /\ [][Next]_vars

\* ------------------------------------------------------------------------
\* The watcher under fair scheduling
\* ------------------------------------------------------------------------
\* views in which no pid of an ended process is reused: whatever is found at
\* the pid of an ended process is not a live process
LiveViews(ps) == {v \in Views(ps) : \A p \in Pids : v[p] # "foreign"}

\* the steps of Next with these views, the watcher left to end by itself
LiveNext ==
    \/ Return
    \/ \E v \in LiveViews(procs) : get_services_status(v)
    \/ \E id \in ProjectIds, spawn_ok \in BOOLEAN, v \in LiveViews(procs) :
          start_project(id, spawn_ok, TRUE, TRUE, v)
    \/ \E id \in ProjectIds : launch_terminal(id)
    \/ \E id \in ProjectIds, v \in LiveViews(procs) : stop_project(id, v)
    \/ \E w \in Pids : WatcherStart(w)
    \/ \E w \in Pids, v \in LiveViews(procs) : WatcherIterate(w, v)
    \/ \E p \in Pids \ WatcherPids : Die(p)
    \/ \E p \in Pids : Fork(p)

\* the OS schedules every watcher process: a watcher that again and again can
\* take its next step takes it; a call that has returned is over
LiveSpec ==
    /\ Init
    /\ [][LiveNext]_vars
    /\ WF_vars(Return)
    /\ \A w \in Pids : SF_vars(WatcherStart(w))
    /\ \A w \in Pids : SF_vars(\E v \in LiveViews(procs) : WatcherIterate(w, v))

\* ------------------------------------------------------------------------
\* The operations behind 'cwm run stop --all', 'cwm run remove' and
\* 'cwm run kill'. run_cmd.py and nuke_all call stop_all, remove_entry and
\* kill_watcher; their bodies are modelled on their description in the
\* specification of the orchestrator
\* ------------------------------------------------------------------------
\* del state[key]
Remove(state, key) == [k \in DOMAIN state \ {key} |-> state[k]]

\* the project ids of the entries whose status is running
running_ids(state) == {state[k].project_id : k \in {j \in DOMAIN state : state[j].status = "running"}}

\* stop_all, the loop: stop_project for each id in turn, each call with its
\* own reconciliation, kills and save; an exception of a call ends the loop
RECURSIVE stop_each(_, _, _, _, _, _)
stop_each(ids, state, pt, par, trace, count) ==
    IF ids = {}
    THEN [state |-> state, pt |-> pt, par |-> par, trace |-> trace, count |-> count, raised |-> ""]
    ELSE LET id  == CHOOSE x \in ids : \A y \in ids : x <= y
             sid == str_id(id)
             st  == status_state(state, pt)
             km  == stop_kills(st[sid], pt, par, trace)
         IN IF km.raised # ""
            THEN [state |-> st, pt |-> km.pt, par |-> Reparent(km.pt, par), trace |-> km.trace,
                  count |-> count, raised |-> km.raised]
            ELSE stop_each(ids \ {id}, [st EXCEPT ![sid] = stopped_entry(st[sid])], km.pt,
                           Reparent(km.pt, par), Append(km.trace, SaveEv), count + 1)

\* stop_all on the loaded registry: the running entries are those that
\* get_services_status returns as running
stop_all_run(state0, pt, par) ==
    LET state == status_state(state0, pt)
    IN stop_each(running_ids(state), state, pt, par, Saves(state # state0), 0)

\* kill_watcher: kill the process watcher.pid names when it exists; the
\* message holds "killed" when it did
kill_watcher(lk, pt, trace) ==
    IF lk # NoneVal /\ pid_exists(pt, lk)
    THEN [pt |-> kill(pt, lk), trace |-> Append(trace, KillEv(lk, "watcher")),
          msg |-> "Watcher killed."]
    ELSE [pt |-> pt, trace |-> trace, msg |-> "No watcher running."]

\* what stop_all and nuke_all return besides the message
Count(n) == [count |-> n]

stop_all(v) ==
    /\ last = NoCall
    /\ disk = "whole"
    /\ UNCHANGED <<disk, document, backup, history, input>>
    /\ LET pt == Table(procs, v)
           r  == stop_all_run(registry, pt, parent)
       IN /\ registry' = r.state
          /\ procs' = Settle(r.pt)
          /\ parent' = r.par
          /\ last' = Result("stop_all", 0, r.raised = "", r.raised, NoneVal, r.trace,
                            Count(r.count), Seen(registry, pt))
          /\ UNCHANGED <<projects, nextPid, lock, watcher, owner, logs>>

\* remove_entry: stop_project, then the entry is deleted and the state saved
remove_entry(id, v) ==
    /\ last = NoCall
    /\ disk = "whole"
    /\ UNCHANGED <<disk, document, backup, history, input>>
    /\ LET pt    == Table(procs, v)
           state == status_state(registry, pt)
           dirty == state # registry
           seen  == Seen(registry, pt)
           sid   == str_id(id)
       IN IF ~ (sid \in DOMAIN state)
          THEN /\ registry' = state
               /\ last' = Result("remove", id, FALSE, "Not found.", NoneVal, Saves(dirty),
                                 EmptyMap, seen)
               /\ UNCHANGED <<projects, procs, parent, nextPid, lock, watcher, owner, logs>>
          ELSE LET km == stop_kills(state[sid], pt, parent, Saves(dirty))
               IN /\ procs' = Settle(km.pt)
                  /\ parent' = Reparent(km.pt, parent)
                  /\ IF km.raised # ""
                     THEN /\ registry' = state
                          /\ last' = Result("remove", id, FALSE, km.raised, NoneVal, km.trace,
                                            EmptyMap, seen)
                     ELSE /\ registry' = Remove(state, sid)
                          /\ last' = Result("remove", id, TRUE, "Removed.", NoneVal,
                                            km.trace \o <<SaveEv, SaveEv>>, EmptyMap, seen)
                  /\ UNCHANGED <<projects, nextPid, lock, watcher, owner, logs>>

\* ServiceManager.nuke_all: stop_all, then kill_watcher; the count and the
\* watcher message are returned. A watcher that is killed does not reach the
\* finally block that unlinks watcher.pid
nuke_all(v) ==
    /\ last = NoCall
    /\ disk = "whole"
    /\ UNCHANGED <<disk, document, backup, history, input>>
    /\ LET pt == Table(procs, v)
           r  == stop_all_run(registry, pt, parent)
           kw == kill_watcher(lock, r.pt, r.trace)
       IN /\ registry' = r.state
          /\ IF r.raised # ""
             THEN /\ procs' = Settle(r.pt)
                  /\ parent' = r.par
                  /\ last' = Result("nuke_all", 0, FALSE, r.raised, NoneVal, r.trace,
                                    Count(r.count), Seen(registry, pt))
             ELSE /\ procs' = Settle(kw.pt)
                  /\ parent' = Reparent(kw.pt, r.par)
                  /\ last' = Result("nuke_all", 0, TRUE, kw.msg, NoneVal, kw.trace,
                                    Count(r.count), Seen(registry, pt))
          /\ UNCHANGED <<projects, nextPid, lock, watcher, owner, logs>>

\* the steps of Next and these three commands, projects.json left as it is
OpsNext ==
    \/ Return
    \/ \E v \in Views(procs) : get_services_status(v)
    \/ \E id \in ProjectIds, spawn_ok \in BOOLEAN, v \in Views(procs) :
          start_project(id, spawn_ok, TRUE, TRUE, v)
    \/ \E id \in ProjectIds, p \in ViewerPids : RegisterViewer(id, p)
    \/ \E id \in ProjectIds : launch_terminal(id)
    \/ \E id \in ProjectIds, v \in Views(procs) : stop_project(id, v)
    \/ \E w \in Pids : WatcherStart(w)
    \/ \E w \in Pids, v \in Views(procs) : WatcherIterate(w, v)
    \/ \E p \in Pids : Die(p)
    \/ \E p \in Pids : Fork(p)
    \/ \E v \in Views(procs) : stop_all(v)
    \/ \E id \in ProjectIds, v \in Views(procs) : remove_entry(id, v)
    \/ \E v \in Views(procs) : nuke_all(v)

OpsSpec == Init /\ [][OpsNext]_vars

\* ------------------------------------------------------------------------
\* The registry file under faults: its text replaced by hand, a write that
\* fails, a reader between the two halves of a write
\* ------------------------------------------------------------------------
\* frames the interpreter allows before it raises RecursionError
RecursionLimit == 3

\* _load_state on a file that does not parse or whose root is no mapping: the
\* except block calls nuke_all, whose first statement is stop_all; stop_all has
\* to read the entries and every read of the file goes through _load_state,
\* which finds the same file and enters the except block again. No statement
\* after self.nuke_all() is reached: neither kill_watcher nor the write of "{}"
RECURSIVE load_state_corrupt(_)
load_state_corrupt(depth) ==
    IF depth >= RecursionLimit THEN "RecursionError" ELSE load_state_corrupt(depth + 1)

\* services.json is overwritten from outside, e.g. with "not-an-object"
Tamper ==
    /\ last = NoCall
    /\ disk = "whole"
    /\ disk' = "garbage"
    /\ last' = NoCall
    /\ UNCHANGED <<registry, projects, procs, parent, nextPid, lock, watcher, owner, logs,
                   document, backup, history, input>>

\* the foreground operations, called while the file is corrupt: each begins
\* with _load_state (get_services_status, register_viewer) or with
\* get_services_status (start_project, stop_project), outside any try block
CorruptLoad(op, id) ==
    /\ last = NoCall
    /\ disk = "garbage"
    /\ last' = Result(op, id, FALSE, load_state_corrupt(1), NoneVal, << >>, EmptyMap, {})
    /\ UNCHANGED <<registry, projects, procs, parent, nextPid, lock, watcher, owner, logs,
                   disk, document, backup, history, input>>

\* a watcher iteration while the file is corrupt: the exception leaves the
\* loop through the finally block, which unlinks watcher.pid, and ends the
\* process
WatcherCorruptLoad(w) ==
    /\ last = NoCall
    /\ disk = "garbage"
    /\ w \in DOMAIN watcher
    /\ procs[w] = "alive"
    /\ watcher[w].pc = "sleeping"
    /\ load_state_corrupt(1) = "RecursionError"
    /\ watcher' = [watcher EXCEPT ![w].pc = "done"]
    /\ procs' = [procs EXCEPT ![w] = "dead"]
    /\ lock' = NoneVal
    /\ last' = NoCall
    /\ UNCHANGED <<registry, projects, parent, nextPid, owner, logs, disk, document, backup, history, input>>

\* get_services_status up to the middle of its _save_state: write_text has
\* opened services.json for writing, which truncates it, and has not yet
\* written the new text
status_truncated(v) ==
    /\ last = NoCall
    /\ disk = "whole"
    /\ LET pt    == Table(procs, v)
           state == status_state(registry, pt)
       IN /\ state # registry
          /\ last' = Result("saving", 0, FALSE, "", NoneVal, <<SaveEv>>, state, Seen(registry, pt))
    /\ disk' = "empty"
    /\ UNCHANGED <<registry, projects, procs, parent, nextPid, lock, watcher, owner, logs,
                   document, backup, history, input>>

\* the rest of that get_services_status: the text is written and the state
\* returned
status_written ==
    /\ last.op = "saving"
    /\ registry' = last.ret
    /\ disk' = "whole"
    /\ last' = [last EXCEPT !.op = "status", !.ok = TRUE]
    /\ UNCHANGED <<projects, procs, parent, nextPid, lock, watcher, owner, logs, document, backup, history, input>>

\* a watcher iteration that reads the file while it is truncated: the content
\* is blank, _load_state returns {}, nothing is active and the watcher ends
WatcherIterateEmpty(w) ==
    /\ last.op = "saving"
    /\ disk = "empty"
    /\ w \in DOMAIN watcher
    /\ procs[w] = "alive"
    /\ watcher[w].pc = "sleeping"
    /\ active_count(EmptyMap, procs) = 0
    /\ watcher' = [watcher EXCEPT ![w].pc = "done"]
    /\ procs' = [procs EXCEPT ![w] = "dead"]
    /\ lock' = NoneVal
    /\ UNCHANGED <<registry, projects, parent, nextPid, owner, logs, last, disk, document, backup, history, input>>

FaultNext ==
    \/ Return
    \/ \E v \in Views(procs) : get_services_status(v)
    \/ \E id \in ProjectIds, spawn_ok, save_ok \in BOOLEAN, v \in Views(procs) :
          start_project(id, spawn_ok, save_ok, TRUE, v)
    \/ \E id \in ProjectIds : launch_terminal(id)
    \/ \E id \in ProjectIds, v \in Views(procs) : stop_project(id, v)
    \/ \E w \in Pids : WatcherStart(w)
    \/ \E w \in Pids, v \in Views(procs) : WatcherIterate(w, v)
    \/ \E p \in Pids : Die(p)
    \/ Tamper
    \/ \E op \in {"status", "start", "stop", "register"}, id \in ProjectIds : CorruptLoad(op, id)
    \/ \E w \in Pids : WatcherCorruptLoad(w)
    \/ \E v \in Views(procs) : status_truncated(v)
    \/ status_written
    \/ \E w \in Pids : WatcherIterateEmpty(w)

FaultSpec == Init /\ [][FaultNext]_vars

\* ------------------------------------------------------------------------
\* The document store: loading projects.json (StorageManager)
\* ------------------------------------------------------------------------
\* rows and group entries of the documents looked at
MaxRows == 2
MaxItems == 2

\* a value in the file that is no integer where the schema wants one (a
\* string, null)
BadVal == -2

Aliases == {"api", "web"}

\* the sequences over S of length at most n
SeqUpTo(S, n) == UNION {[1..k -> S] : k \in 0..n}

\* projects.json as a hand or a project command can leave it: ids that repeat,
\* are 0, have gaps or are mistyped; group entries whose id or alias matches
\* no project; rows in no group, in the group 3, or in a group 4 that is gone
RawRows == [id : {BadVal, 0, 1, 2, 5}, alias : Aliases, group : {NoneVal, 3, 4}]
RawItems == [id : {BadVal, 1, 2, 7}, verify : Aliases \cup {"old"}]
RawGroups == {<< >>} \cup {<<[id |-> 3, project_list |-> l]>> : l \in SeqUpTo(RawItems, MaxItems)}
RawDocuments ==
    [present : {TRUE}, last_id : {9}, last_group_id : {0},
     projects : SeqUpTo(RawRows, MaxRows), groups : RawGroups]

\* _validate_value for a field declared int: the value, or default_for_type
validate_int(x) == IF x = BadVal \/ x = NoneVal THEN 0 ELSE x

\* load_projects: the default it passes to _load_json, without the keys
\* last_group_id and groups
default_arg == [last_id |-> 0, projects |-> << >>]

\* validate(data, SCHEMAS["projects.json"]): every declared field kept when
\* of its type, else replaced by the default of the type; a declared key the
\* document lacks gets the default of its schema
validate(data) ==
    LET rows == IF "projects" \in DOMAIN data THEN data.projects ELSE << >>
        grps == IF "groups" \in DOMAIN data THEN data.groups ELSE << >>
    IN [last_id |-> IF "last_id" \in DOMAIN data THEN validate_int(data.last_id) ELSE 0,
        last_group_id |-> IF "last_group_id" \in DOMAIN data
                          THEN validate_int(data.last_group_id) ELSE 0,
        projects |-> [i \in 1..Len(rows) |->
                         [id |-> validate_int(rows[i].id),
                          alias |-> rows[i].alias,
                          group |-> IF rows[i].group = BadVal THEN NoneVal ELSE rows[i].group]],
        groups |-> [g \in 1..Len(grps) |->
                       [id |-> validate_int(grps[g].id),
                        project_list |->
                           [i \in 1..Len(grps[g].project_list) |->
                               [id |-> validate_int(grps[g].project_list[i].id),
                                verify |-> grps[g].project_list[i].verify]]]]]

\* load_projects, the default for a file that does not exist, validated
default_projects == validate(default_arg)

\* {old_id: new_id} as the loops of phases 1 and 2 leave it: the position of
\* the last row that carried the old id
id_map(rows) ==
    [old \in {rows[i].id : i \in 1..Len(rows)} |->
        CHOOSE i \in 1..Len(rows) : rows[i].id = old /\ \A j \in 1..Len(rows) : rows[j].id = old => j <= i]

\* phase 3A for one group: the items whose id is in proj_map, with the new id
RECURSIVE remap_items(_, _)
remap_items(items, proj_map) ==
    IF items = << >> THEN << >>
    ELSE LET it == Head(items)
             rest == remap_items(Tail(items), proj_map)
         IN IF it.id \in DOMAIN proj_map
            THEN <<[id |-> proj_map[it.id], verify |-> it.verify]>> \o rest
            ELSE rest

\* _reindex_projects
reindex_projects(data) ==
    LET proj_map  == id_map(data.projects)
        group_map == id_map(data.groups)
    IN [last_id |-> Len(data.projects),
        last_group_id |-> Len(data.groups),
        projects |-> [i \in 1..Len(data.projects) |->
                         [id |-> i,
                          alias |-> data.projects[i].alias,
                          group |-> IF data.projects[i].group \in DOMAIN group_map
                                    THEN group_map[data.projects[i].group] ELSE NoneVal]],
        groups |-> [g \in 1..Len(data.groups) |->
                       [id |-> g,
                        project_list |-> remap_items(data.groups[g].project_list, proj_map)]]]

\* _heal_groups: {alias: id}, the id of the last project with the alias
alias_to_id_map(rows) ==
    [a \in {rows[i].alias : i \in 1..Len(rows)} |->
        rows[CHOOSE i \in 1..Len(rows) :
                rows[i].alias = a /\ \A j \in 1..Len(rows) : rows[j].alias = a => j <= i].id]

\* _heal_groups, cases 1 to 3 over the items of one group
RECURSIVE heal_items(_, _)
heal_items(items, amap) ==
    IF items = << >> THEN << >>
    ELSE LET it == Head(items)
             rest == heal_items(Tail(items), amap)
         IN IF it.verify \in DOMAIN amap
            THEN <<[id |-> amap[it.verify], verify |-> it.verify]>> \o rest
            ELSE rest

\* _heal_groups: the document it returns
heal_groups(data) ==
    [data EXCEPT !.groups =
        [g \in 1..Len(data.groups) |->
            [data.groups[g] EXCEPT !.project_list =
                heal_items(data.groups[g].project_list, alias_to_id_map(data.projects))]]]

\* _load_json, steps B and C: _enforce_sequential_ids, then _heal_groups
reindex_and_heal(validated) == heal_groups(reindex_projects(validated))

\* load_projects, phase 2: the rows renumbered when an id is 0 or repeats
logic_repair(data) ==
    IF \E i \in 1..Len(data.projects) :
          \/ data.projects[i].id = 0
          \/ \E j \in 1..(i - 1) : data.projects[j].id = data.projects[i].id
    THEN [data EXCEPT !.projects = [i \in 1..Len(data.projects) |->
                                       [data.projects[i] EXCEPT !.id = i]],
                      !.last_id = Len(data.projects)]
    ELSE data

\* _load_json, step A: validate(raw, schema, partial=is_partial). validate is
\* defined as validate(data, schema) and takes no keyword 'partial': the call
\* raises TypeError before any statement of validate runs
validate_partial(raw) == [raised |-> "TypeError", value |-> raw]

\* the file with the content data, a mapping of keys to values
File(data) == [k \in DOMAIN data \cup {"present"} |-> IF k = "present" THEN TRUE ELSE data[k]]

\* the content of the file
Content(file) == [k \in DOMAIN file \ {"present"} |-> file[k]]

\* a file whose text json.loads rejects (JSONDecodeError)
Garbage == [present |-> TRUE, text |-> "{"]

\* the file exists and json.loads returns its content
Parses(file) == file.present /\ "text" \notin DOMAIN file

\* a write the store made: ev is "write" (write_text on the file itself),
\* "tmp" (write_text on the .tmp file), "replace" (tmp.replace(file)) or
\* "copy" (shutil.copy2 to the .bak file)
FileEv(ev, name) == [ev |-> ev, pid |-> 0, role |-> name]

\* _restore_from_backup(file, default): the text of the .bak file written
\* over the file when the .bak exists and parses, else json.dumps(default)
\* written over it; raw is the value handed back to _load_json
restore_from_backup(bak, default) ==
    IF Parses(bak) THEN [file |-> bak, raw |-> Content(bak)]
    ELSE [file |-> File(default), raw |-> default]

\* StorageManager.load_projects: _load_json and phase 2. Nothing catches the
\* TypeError of step A: it leaves _load_json and load_projects, and the file
\* stays as the read or the restore left it
load_projects ==
    /\ last = NoCall
    /\ IF ~ document.present
       THEN /\ last' = Result("load", 0, TRUE, "", NoneVal, << >>, logic_repair(default_projects), {})
            /\ UNCHANGED document
       ELSE LET found    == IF Parses(document)
                            THEN [file |-> document, raw |-> Content(document)]
                            ELSE restore_from_backup(backup, default_arg)
                restored == IF Parses(document) THEN << >>
                            ELSE <<FileEv("write", "projects.json")>>
                step_a   == validate_partial(found.raw)
                final    == logic_repair(reindex_and_heal(step_a.value))
            IN IF step_a.raised # ""
               THEN /\ last' = Result("load", 0, FALSE, step_a.raised, NoneVal, restored, EmptyMap, {})
                    /\ document' = found.file
               ELSE /\ last' = Result("load", 0, TRUE, "", NoneVal,
                                      restored \o Saves(final # found.raw), final, {})
                    /\ document' = File(final)
    /\ UNCHANGED <<registry, projects, procs, parent, nextPid, lock, watcher, owner, logs, disk,
                   backup, history, input>>

\* _enforce_sequential_ids and _heal_groups applied to the validated document
\* (steps B and C of _load_json), the repaired document written back
ReindexAndHeal ==
    /\ last = NoCall
    /\ Parses(document)
    /\ LET final == reindex_and_heal(validate(Content(document)))
       IN /\ last' = Result("heal", 0, TRUE, "", NoneVal, Saves(final # Content(document)), final, {})
          /\ document' = File(final)
    /\ UNCHANGED <<registry, projects, procs, parent, nextPid, lock, watcher, owner, logs, disk,
                   backup, history, input>>

\* a fresh bank with a projects.json of any content, or none
StoreInit ==
    /\ registry = EmptyMap
    /\ projects = << >>
    /\ procs = [p \in Pids |-> "unborn"]
    /\ parent = [p \in Pids |-> 0]
    /\ nextPid = 1
    /\ lock = NoneVal
    /\ watcher = EmptyMap
    /\ owner = [p \in Pids |-> 0]
    /\ logs = [i \in ProjectIds |-> "empty"]
    /\ last = NoCall
    /\ disk = "whole"
    /\ document \in RawDocuments \cup {NoDocument}
    /\ backup = NoDocument
    /\ history = NoHistory
    /\ input = NoInput

StoreNext ==
    \/ Return
    \/ load_projects
    \/ ReindexAndHeal

StoreSpec == StoreInit /\ [][StoreNext]_vars

\* ------------------------------------------------------------------------
\* The document store: saving, the backup file (StorageManager)
\* ------------------------------------------------------------------------
\* commands of the history documents looked at
MaxCmds == 1

\* a document with a key the schema of projects.json does not declare, and
\* without the keys last_group_id and groups
undeclared_arg == [last_id |-> 1, projects |-> << >>, theme |-> "dark"]

\* documents a caller hands to save_projects: the rows of a bank with at most
\* one project, an id or the counter mistyped, the bare default, or a
\* document with an undeclared key
SaveRows == [id : {BadVal, 1}, alias : {"api"}, group : {NoneVal}]
SaveDocuments ==
    [last_id : {BadVal, 1}, last_group_id : {0}, projects : SeqUpTo(SaveRows, 1),
     groups : {<< >>}] \cup {default_arg, undeclared_arg}

\* documents a caller hands to save_cached_history
HistoryRows == [id : {BadVal, 4}, cmd : {"ls"}]
HistoryDocuments == [last_sync_id : {BadVal, 0}, commands : SeqUpTo(HistoryRows, MaxCmds)]

\* validate(data, SCHEMAS["history.json"])
validate_history(data) ==
    [last_sync_id |-> validate_int(data.last_sync_id),
     commands |-> [i \in 1..Len(data.commands) |->
                      [id |-> validate_int(data.commands[i].id), cmd |-> data.commands[i].cmd]]]

\* _save_json: the data validated against the schema of the file name,
\* written to the .tmp file, the .tmp file renamed over the file
save_json(name, data) ==
    File(IF name = "projects.json" THEN validate(data) ELSE validate_history(data))

\* _update_backup: shutil.copy2(file, file.bak); an exception of the copy is
\* printed as a warning and not raised, the .bak file staying as it was
update_backup(file, bak, copy_ok) == IF copy_ok THEN file ELSE bak

\* StorageManager.save_projects(data): _save_json, then _update_backup. An
\* exception of the write or the rename is re-raised by _save_json
save_projects(data, write_ok, copy_ok) ==
    /\ last = NoCall
    /\ IF write_ok
       THEN /\ document' = save_json("projects.json", data)
            /\ backup' = update_backup(document', backup, copy_ok)
            /\ last' = Result("save", 0, TRUE, "", NoneVal,
                              <<FileEv("tmp", "projects.json"), FileEv("replace", "projects.json")>>
                                 \o (IF copy_ok THEN <<FileEv("copy", "projects.json")>> ELSE << >>),
                              EmptyMap, {})
       ELSE /\ last' = Result("save", 0, FALSE, "OSError", NoneVal, << >>, EmptyMap, {})
            /\ UNCHANGED <<document, backup>>
    /\ UNCHANGED <<registry, projects, procs, parent, nextPid, lock, watcher, owner, logs, disk,
                   history, input>>

\* StorageManager.save_cached_history(data): _save_json alone
save_cached_history(data, write_ok) ==
    /\ last = NoCall
    /\ IF write_ok
       THEN /\ history' = [history EXCEPT !.file = save_json("history.json", data)]
            /\ last' = Result("save_history", 0, TRUE, "", NoneVal,
                              <<FileEv("tmp", "history.json"), FileEv("replace", "history.json")>>,
                              EmptyMap, {})
       ELSE /\ last' = Result("save_history", 0, FALSE, "OSError", NoneVal, << >>, EmptyMap, {})
            /\ UNCHANGED history
    /\ UNCHANGED <<registry, projects, procs, parent, nextPid, lock, watcher, owner, logs, disk,
                   document, backup, input>>

\* the files a bank can hold as projects.json or as its .bak: none, text that
\* does not parse, or a document
BankFiles == {NoDocument, Garbage} \cup {File(d) : d \in SaveDocuments}

\* a bank with any projects.json and any projects.json.bak, no history yet
BackupInit ==
    /\ registry = EmptyMap
    /\ projects = << >>
    /\ procs = [p \in Pids |-> "unborn"]
    /\ parent = [p \in Pids |-> 0]
    /\ nextPid = 1
    /\ lock = NoneVal
    /\ watcher = EmptyMap
    /\ owner = [p \in Pids |-> 0]
    /\ logs = [i \in ProjectIds |-> "empty"]
    /\ last = NoCall
    /\ disk = "whole"
    /\ document \in BankFiles
    /\ backup \in BankFiles
    /\ history = NoHistory
    /\ input = NoInput

BackupNext ==
    \/ Return
    \/ load_projects
    \/ \E data \in SaveDocuments : \E write_ok, copy_ok \in BOOLEAN :
          save_projects(data, write_ok, copy_ok)
    \/ \E data \in HistoryDocuments : \E write_ok \in BOOLEAN : save_cached_history(data, write_ok)

BackupSpec == BackupInit /\ [][BackupNext]_vars

\* ------------------------------------------------------------------------
\* The schema validator (schema_validator.py)
\* ------------------------------------------------------------------------
\* elements of the lists looked at
MaxElems == 2

\* a Python value: its type and, for int, float, str, bool and None, its
\* literal; the elements of a list; the keys and values of a dict
Prim(t, v) == [t |-> t, v |-> v]
List(items) == [t |-> "list", items |-> items]
Dict(fields) == [t |-> "dict", fields |-> fields]
None == Prim("NoneType", "None")

\* a schema: a type, a tuple of types, a mapping of keys to schemas, or a
\* list holding the schema of the items (or nothing)
TypeS(t) == [kind |-> "type", t |-> t]
UnionS(ts) == [kind |-> "union", ts |-> ts]
MapS(fields) == [kind |-> "map", fields |-> fields]
ListS(sub) == [kind |-> "list", sub |-> sub]

\* isinstance(value, t) for a type t: a bool is an int as well
is_instance(value, t) == value.t = t \/ (t = "int" /\ value.t = "bool")

\* default_for_type(t): None for every tuple and for a type not listed
default_for_type(expected) ==
    IF expected.kind = "union" THEN None
    ELSE CASE expected.t = "int"   -> Prim("int", "0")
           [] expected.t = "float" -> Prim("float", "0.0")
           [] expected.t = "str"   -> Prim("str", "")
           [] expected.t = "bool"  -> Prim("bool", "False")
           [] expected.t = "list"  -> List(<< >>)
           [] expected.t = "dict"  -> Dict(EmptyMap)
           [] OTHER                -> None

\* _validate_value
validate_value(value, expected) ==
    IF expected.kind = "union"
    THEN IF ~ \E i \in 1..Len(expected.ts) : is_instance(value, expected.ts[i])
         THEN default_for_type(expected)
         ELSE value
    ELSE IF ~ is_instance(value, expected.t)
         THEN default_for_type(expected)
         ELSE value

\* _validate_list that leaves out the first item
validate_list_skips_first(data, subschema) ==
    IF data.t # "list" THEN List(<< >>)
    ELSE IF data.items = << >> THEN data
    ELSE List(Tail(data.items))

\* generate_default
RECURSIVE generate_default(_)
generate_default(schema) ==
    IF schema.kind = "map"
    THEN Dict([key \in DOMAIN schema.fields |-> generate_default(schema.fields[key])])
    ELSE IF schema.kind = "list" THEN List(<< >>)
    ELSE default_for_type(schema)

\* validate(data, schema), with _validate_dict and _validate_list
RECURSIVE validate_any(_, _)
RECURSIVE validate_list(_, _)
RECURSIVE validate_dict(_, _)
validate_list(data, subschema) ==
    IF data.t # "list" THEN List(<< >>)
    ELSE IF subschema = << >> THEN data
    ELSE List([i \in 1..Len(data.items) |-> validate_any(data.items[i], subschema[1])])

validate_dict(data, schema) ==
    LET d == IF data.t # "dict" THEN EmptyMap ELSE data.fields
    IN Dict([key \in DOMAIN schema.fields |->
                IF key \notin DOMAIN d THEN generate_default(schema.fields[key])
                ELSE validate_any(d[key], schema.fields[key])])

validate_any(data, schema) ==
    IF schema.kind = "map" THEN validate_dict(data, schema)
    ELSE IF schema.kind = "list" THEN validate_list(data, schema.sub)
    ELSE validate_value(data, schema)

\* the values handed to validate: JSON scalars, lists of them, dicts with
\* some of the keys a, b and an undeclared key z, and one more level of
\* nesting
Scalars ==
    {Prim("int", "0"), Prim("int", "7"), Prim("float", "1.5"), Prim("str", ""),
     Prim("str", "x"), Prim("bool", "True"), None}
Keys == {"a", "b", "z"}
Values1 ==
    Scalars \cup {List(l) : l \in SeqUpTo({Prim("int", "7"), Prim("str", "x"), None}, MaxElems)}
            \cup {Dict(f) : f \in UNION {[S -> {Prim("int", "7"), Prim("str", "x")}] :
                                            S \in SUBSET Keys}}
Nested == {List(<<Prim("str", "x")>>), Dict([key \in {"b"} |-> Prim("str", "x")]),
           Dict([key \in {"b"} |-> Prim("float", "1.5")])}
Values ==
    Values1 \cup {List(<<v>>) : v \in Nested}
            \cup {Dict([key \in {"a"} |-> v]) : v \in Nested}

\* the schemas: the types, the unions of SCHEMAS and of
\* validate_service_entry, lists, and mappings over the keys a and b
Types == {TypeS(t) : t \in {"int", "float", "str", "bool", "list", "dict"}}
Unions == {UnionS(<<"int", "float">>), UnionS(<<"int", "NoneType">>),
           UnionS(<<"str", "list", "NoneType">>), UnionS(<<"bool", "NoneType">>)}
Schemas1 == Types \cup Unions \cup {ListS(<< >>)} \cup {ListS(<<s>>) : s \in Types \cup Unions}
Schemas ==
    Schemas1 \cup {MapS([key \in {"a"} |-> s]) : s \in Schemas1}
             \cup {MapS([key \in {"a", "b"} |-> IF key = "a" THEN TypeS("int") ELSE s]) : s \in Schemas1}
             \cup {MapS([key \in {"a"} |-> MapS([k2 \in {"b"} |-> s])]) : s \in Types \cup Unions}
             \cup {ListS(<<MapS([key \in {"b"} |-> s])>>) : s \in Types \cup Unions}

\* validate(value, schema)
Validate ==
    /\ last = NoCall
    /\ last' = Result("validate", 0, TRUE, "", NoneVal, << >>,
                      validate_any(input.value, input.schema), {})
    /\ UNCHANGED <<registry, projects, procs, parent, nextPid, lock, watcher, owner, logs, disk,
                   document, backup, history, input>>

\* validate(validate(value, schema), schema): the result validated again
Revalidate ==
    /\ last.op = "validate"
    /\ last' = [last EXCEPT !.op = "revalidate", !.ret = validate_any(last.ret, input.schema)]
    /\ UNCHANGED <<registry, projects, procs, parent, nextPid, lock, watcher, owner, logs, disk,
                   document, backup, history, input>>

\* a caller about to validate any value against any schema
ValidateInit ==
    /\ registry = EmptyMap
    /\ projects = << >>
    /\ procs = [p \in Pids |-> "unborn"]
    /\ parent = [p \in Pids |-> 0]
    /\ nextPid = 1
    /\ lock = NoneVal
    /\ watcher = EmptyMap
    /\ owner = [p \in Pids |-> 0]
    /\ logs = [i \in ProjectIds |-> "empty"]
    /\ last = NoCall
    /\ disk = "whole"
    /\ document = NoDocument
    /\ backup = NoDocument
    /\ history = NoHistory
    /\ input \in [value : Values, schema : Schemas]

ValidateNext ==
    \/ Return
    \/ Validate
    \/ Revalidate

ValidateSpec == ValidateInit /\ [][ValidateNext]_vars

\* ------------------------------------------------------------------------
\* Properties
\* ------------------------------------------------------------------------
\* an entry as reconciliation leaves it when the processes are ps and the
\* process table showed seen: a running entry stays when its pid is a live
\* process (its own, or the one that reused the pid), else it is demoted; an
\* entry that is not running carries no pid
Reconciled(e, ps, seen) ==
    IF e.status = "running"
    THEN IF e.pid \in Pids /\ (ps[e.pid] = "alive" \/ <<e.pid, "foreign">> \in seen) THEN e
         ELSE [e EXCEPT !.status = "stopped", !.pid = NoneVal]
    ELSE [e EXCEPT !.pid = NoneVal]

\* the step is a call of the named operation for project id
StepOf(op, id) == last'.op = op /\ last'.id = id

\* the step spawns no process at all
NoSpawn == nextPid' = nextPid /\ watcher' = watcher /\ \A p \in Pids : procs[p] = "unborn" => procs'[p] = "unborn"

Kills(trace) == {trace[i].pid : i \in {j \in 1..Len(trace) : trace[j].ev = "kill"}}

\* C1: in every persisted registry state every entry with status "stopped"
\* has pid = null and viewers = [].
C1_StoppedIsClean ==
    \A k \in DOMAIN registry :
        registry[k].status = "stopped" =>
            registry[k].pid = NoneVal /\ registry[k].viewers = << >>

\* C2: start_project(id) on an entry that is running with a live pid returns
\* failure "Already running.", spawns no child and no watcher, and leaves the
\* entry for id unchanged.
C2_StartWhenRunning ==
    [][\A id \in ProjectIds :
         (/\ StepOf("start", id)
          /\ str_id(id) \in DOMAIN registry
          /\ registry[str_id(id)].status = "running"
          /\ registry[str_id(id)].pid \in Pids
          /\ procs[registry[str_id(id)].pid] = "alive")
         => (/\ ~ last'.ok
             /\ last'.msg = "Already running."
             /\ NoSpawn
             /\ str_id(id) \in DOMAIN registry'
             /\ registry'[str_id(id)] = registry[str_id(id)])]_vars

C2_Witness ==
    /\ last.op = "start"
    /\ last.msg = "Already running."
    /\ registry[str_id(last.id)].status = "running"
    /\ procs[registry[str_id(last.id)].pid] = "alive"

StartRefusals ==
    {"Project ID not found.", "No startup command.", "SECURITY BLOCK: Command deemed unsafe."}

Refusal(id) ==
    LET rows == {i \in 1..Len(projects) : projects[i].id = id}
    IN IF rows = {} THEN "Project ID not found."
       ELSE IF \E i \in rows : projects[i].startup_cmd = CmdNone THEN "No startup command."
       ELSE IF \E i \in rows : projects[i].startup_cmd \in {CmdRm, CmdEscape}
            THEN "SECURITY BLOCK: Command deemed unsafe."
       ELSE ""

RECURSIVE Up(_, _)
Up(q, n) == IF n = 0 \/ parent[q] = 0 THEN {} ELSE {parent[q]} \cup Up(parent[q], n - 1)

Descendants(pid) == {q \in Pids : pid \in Up(q, MaxPid)}

\* positions of the trace at which a kill with one of the roles was issued
KillsAt(trace, roles) == {i \in 1..Len(trace) : trace[i].ev = "kill" /\ trace[i].role \in roles}

SavesAt(trace) == {i \in 1..Len(trace) : trace[i].ev = "save"}

Viewers(e) == {e.viewers[i] : i \in 1..Len(e.viewers)}

\* C6: stop_project(id) on an existing entry returns success and leaves the
\* entry stopped with pid null and no viewers; a kill was issued to every live
\* viewer pid, to the live main pid and to every live descendant of it, none of
\* them runs afterwards, and every other entry is unchanged.
C6_StopSucceeds ==
    [][\A id \in ProjectIds :
         (StepOf("stop", id) /\ str_id(id) \in DOMAIN registry)
         => LET e == registry[str_id(id)]
                Targets == Viewers(e) \cup
                           (IF e.pid \in Pids /\ procs[e.pid] = "alive"
                            THEN {e.pid} \cup Descendants(e.pid) ELSE {})
            IN /\ last'.ok
               /\ registry'[str_id(id)].status = "stopped"
               /\ registry'[str_id(id)].pid = NoneVal
               /\ registry'[str_id(id)].viewers = << >>
               /\ \A p \in Targets \cap Pids :
                     procs[p] = "alive" => (p \in Kills(last'.trace) /\ procs'[p] # "alive")
               /\ \A k \in DOMAIN registry \ {str_id(id)} : registry'[k] = registry[k]]_vars

\* C7 as stated: within one stop_project call every viewer kill precedes every
\* kill of the main pid or of a child, and every write of the registry comes
\* after every kill.
C7_KillsBeforeWrites ==
    [][last'.op = "stop"
       => LET t == last'.trace
          IN /\ \A i \in KillsAt(t, {"viewer"}), j \in KillsAt(t, {"main", "child"}) : i < j
             /\ \A i \in KillsAt(t, {"viewer", "main", "child"}), j \in SavesAt(t) : i < j]_vars

\* C7 amended: within one stop_project call a kill is issued to every live
\* registered viewer before the first kill of the main pid or of a child; the
\* write that records the entry as stopped, made when the call succeeds, is the
\* last event of the call; the only write before a kill is the one of the
\* reconciliation at the start of the call, made when it changed an entry.
C7_ViewersFirstStopWriteLast ==
    [][\A id \in ProjectIds :
         (StepOf("stop", id) /\ str_id(id) \in DOMAIN registry)
         => LET t == last'.trace
                kills == KillsAt(t, {"viewer", "main", "child"})
                early == {j \in SavesAt(t) : \E i \in kills : j < i}
                changed == \E k \in DOMAIN registry :
                              registry[k] # Reconciled(registry[k], procs, last'.seen)
            IN /\ \A i \in KillsAt(t, {"viewer"}), j \in KillsAt(t, {"main", "child"}) : i < j
               /\ \A p \in Viewers(registry[str_id(id)]) \cap Pids :
                     procs[p] = "alive" => \E i \in KillsAt(t, {"viewer"}) : t[i].pid = p
               /\ last'.ok => (t # << >> /\ t[Len(t)] = SaveEv)
               /\ early \subseteq {1}
               /\ (1 \in SavesAt(t) /\ Len(t) > 1) <=> changed
               /\ Cardinality(SavesAt(t)) <= 2]_vars

\* a stop that reconciled another entry, then killed a viewer and the main pid
C7_Witness ==
    /\ last.op = "stop"
    /\ last.ok
    /\ Len(last.trace) = 4
    /\ last.trace[1] = SaveEv
    /\ last.trace[2].role = "viewer"
    /\ last.trace[3].role = "main"
    /\ last.trace[4] = SaveEv

\* C8: stop_project(id) when the registry has no entry for id returns failure
\* "Not found.", issues no kill and creates no entry for id.
C8_StopNotFound ==
    [][\A id \in ProjectIds :
         (StepOf("stop", id) /\ ~ (str_id(id) \in DOMAIN registry))
         => (/\ ~ last'.ok
             /\ last'.msg = "Not found."
             /\ Kills(last'.trace) = {}
             /\ procs' = procs
             /\ DOMAIN registry' = DOMAIN registry)]_vars

\* a stop of an id without an entry while another project runs with a viewer
C8_Witness ==
    /\ last.op = "stop"
    /\ last.msg = "Not found."
    /\ \E k \in DOMAIN registry :
          /\ registry[k].status = "running"
          /\ registry[k].viewers # << >>
          /\ procs[registry[k].pid] = "alive"

\* C10: at most one watcher process is ACTIVE at any time.
C10_OneActiveWatcher == Cardinality({w \in WatcherPids : Active(w)}) <= 1

\* no registry entry is running with a live process
Quiet ==
    \A k \in DOMAIN registry :
        ~ (/\ registry[k].status = "running"
           /\ registry[k].pid \in Pids
           /\ procs[registry[k].pid] = "alive")

\* no watcher process runs and the lock file does not exist
NoWatcher == lock = NoneVal /\ \A w \in WatcherPids : procs[w] # "alive"

\* the step is one poll iteration of watcher w
Iteration(w) == \E v \in LiveViews(procs) : WatcherIterate(w, v)

\* C9: under fair scheduling of the watcher, if from some point on no entry is
\* running with a live process, then every watcher leaves its loop and the
\* lock file no longer exists: the first poll iteration made when no entry
\* is running with a live process is the watcher's last and leaves no lock
\* file; a watcher does not leave its loop at the end of an iteration in which
\* an entry is running with a live process.
C9_WatcherTerminates ==
    /\ <>[]Quiet => <>[]NoWatcher
    /\ [][\A w \in Pids :
            (Iteration(w) /\ Quiet)
            => (watcher'[w].pc = "done" /\ procs'[w] # "alive" /\ lock' = NoneVal)]_vars
    /\ [][\A w \in WatcherPids :
            (Active(w) /\ ~ Quiet) => (watcher'[w].pc # "done" /\ (lock # NoneVal => lock' # NoneVal))]_vars

\* a watcher that polled while a project ran has left its loop after the
\* project's process ended, and the lock file is gone
C9_Witness ==
    /\ \E w \in WatcherPids : watcher[w].pc = "done"
    /\ \E k \in DOMAIN registry : registry[k].status = "stopped" /\ logs[registry[k].project_id] = "data"
    /\ NoWatcher
    /\ Quiet

\* ------------------------------------------------------------------------
\* register_viewer
\* ------------------------------------------------------------------------
Occurrences(seq, x) == Cardinality({i \in 1..Len(seq) : seq[i] = x})

NoDuplicate(seq) == \A i, j \in 1..Len(seq) : seq[i] = seq[j] => i = j

\* C15: register_viewer(id, v) is idempotent. A call on an existing entry
\* leaves v exactly once in the entry's viewers, the earlier viewers kept in
\* order (the list is unchanged when v was in it, v is appended otherwise), and
\* changes no other field of any entry; a call for an id without an entry leaves
\* the registry unchanged; no viewers list ever holds a pid twice.
C15_RegisterViewerIdempotent ==
    [][ /\ \A k \in DOMAIN registry' : NoDuplicate(registry'[k].viewers)
        /\ \A id \in ProjectIds :
              StepOf("register", id) =>
                 LET sid == str_id(id)
                     vp  == last'.pid
                 IN IF sid \in DOMAIN registry
                    THEN LET old == registry[sid].viewers
                             new == IF Occurrences(old, vp) > 0 THEN old ELSE Append(old, vp)
                         IN /\ registry' = [registry EXCEPT ![sid].viewers = new]
                            /\ Occurrences(registry'[sid].viewers, vp) = 1
                    ELSE registry' = registry ]_vars

\* a second register_viewer with a pid the entry holds already, behind another
\* viewer: nothing was saved
C15_Witness ==
    /\ last.op = "register"
    /\ last.trace = << >>
    /\ str_id(last.id) \in DOMAIN registry
    /\ Len(registry[str_id(last.id)].viewers) = 2
    /\ registry[str_id(last.id)].viewers[2] = last.pid

\* ------------------------------------------------------------------------
\* stop_all, remove_entry, nuke_all
\* ------------------------------------------------------------------------
\* the keys of the entries that are running once the registry is reconciled
\* against the processes ps, the process table having shown seen
RunningKeys(state, ps, seen) ==
    {k \in DOMAIN state : Reconciled(state[k], ps, seen).status = "running"}

\* C14: stop_all returns the number of entries that were running, after
\* reconciliation, when it was called; when it returns no entry is running,
\* each of those entries is stopped with pid = null and viewers = [], and no
\* entry was added or removed.
C14_StopAllCount ==
    [][ StepOf("stop_all", 0) =>
           LET R == RunningKeys(registry, procs, last'.seen)
           IN /\ last'.ok
              /\ last'.ret = Count(Cardinality(R))
              /\ DOMAIN registry' = DOMAIN registry
              /\ \A k \in DOMAIN registry' : registry'[k].status # "running"
              /\ \A k \in R : /\ registry'[k].status = "stopped"
                              /\ registry'[k].pid = NoneVal
                              /\ registry'[k].viewers = << >> ]_vars

\* the registry as the reconciliation at the start of a call leaves it
ReconciledState(state, ps, seen) == [k \in DOMAIN state |-> Reconciled(state[k], ps, seen)]

\* the live pids that stopping entry e has to kill: its viewers and, when it
\* is running, its main pid
LiveTargets(e, ps) ==
    {p \in Viewers(e) \cap Pids : ps[p] = "alive"} \cup
    (IF e.status = "running" /\ e.pid \in Pids /\ ps[e.pid] = "alive" THEN {e.pid} ELSE {})

C12_NukeAllResets ==
    [][ (StepOf("nuke_all", 0) /\ last'.ok) =>
           LET R == RunningKeys(registry, procs, last'.seen)
           IN /\ registry' = EmptyMap
              /\ \A k \in R : LiveTargets(registry[k], procs) \subseteq Kills(last'.trace)
              /\ (lock \in Pids /\ procs[lock] = "alive") => procs'[lock] # "alive"
              /\ \A w \in DOMAIN watcher' :
                    ~ (procs'[w] = "alive" /\ watcher'[w].pc = "sleeping")
              /\ last'.ret = Count(Cardinality(R)) ]_vars

\* ------------------------------------------------------------------------
\* The registry file under faults
\* ------------------------------------------------------------------------
\* the step is a watcher iteration that ends the watcher
WatcherEnds == \E w \in DOMAIN watcher : watcher[w].pc = "sleeping" /\ watcher'[w].pc = "done"

\* C11: when the registry file does not parse or its root is no mapping, the
\* next operation that loads it (get_services_status, start_project,
\* stop_project, register_viewer, a watcher iteration) raises no exception to
\* its caller, leaves the file holding {} and goes on with the empty map: the
\* registry holds afterwards at most the entry the operation itself wrote.
C11_CorruptRegistryReset ==
    [][ (disk = "garbage" /\ (last'.op \in {"status", "start", "stop", "register"} \/ WatcherEnds))
        => /\ disk' = "whole"
           /\ last'.msg # "RecursionError"
           /\ DOMAIN registry' \subseteq {str_id(last'.id)} ]_vars

\* C16: every write of the registry file is one atomic replace, so that no
\* reader (here the polling watcher) ever reads the file while it is empty or
\* half written.
C16_AtomicRegistryWrites ==
    [][ WatcherEnds => disk # "empty" ]_vars

\* C17: a write failure is raised to the caller: start_project does not return
\* success while the registry on disk lacks the entry of the child it spawned.
C17_WriteFailureRaised ==
    [][\A id \in ProjectIds :
         (StepOf("start", id) /\ last'.ok)
         => /\ str_id(id) \in DOMAIN registry'
            /\ registry'[str_id(id)].status = "running"
            /\ registry'[str_id(id)].pid = last'.pid ]_vars

\* ------------------------------------------------------------------------
\* Loading projects.json
\* ------------------------------------------------------------------------
\* every group entry of doc names a project of doc by id and by alias
Resolves(doc) ==
    \A g \in 1..Len(doc.groups) :
        \A i \in 1..Len(doc.groups[g].project_list) :
            \E p \in 1..Len(doc.projects) :
                /\ doc.projects[p].id = doc.groups[g].project_list[i].id
                /\ doc.projects[p].alias = doc.groups[g].project_list[i].verify

\* C18: after any load of projects.json, whatever ids the rows had on disk,
\* the returned projects list has the same rows in file order with ids
\* 1, 2, ..., N and last_id = N, and the file on disk holds the same.
C18_LoadRenumbers ==
    [][ (StepOf("load", 0) /\ document.present) =>
           LET N == Len(document.projects)
           IN /\ last'.ok
              /\ Len(last'.ret.projects) = N
              /\ \A i \in 1..N : /\ last'.ret.projects[i].id = i
                                 /\ last'.ret.projects[i].alias = document.projects[i].alias
              /\ last'.ret.last_id = N
              /\ document'.projects = last'.ret.projects
              /\ document'.last_id = N ]_vars

\* C19: on load, a group entry {id, verify} is kept when some project has the
\* alias verify, with its id set to that project's id, also when the stored id
\* matched no project, and is removed when no project has the alias: a group's
\* list after the repair is the entries whose alias is a project's, in order,
\* each with the id of a project of that alias.
C19_HealGroupEntries ==
    [][ StepOf("heal", 0) =>
           \A g \in 1..Len(document.groups) :
              LET kept == SelectSeq(document.groups[g].project_list,
                                    LAMBDA it : \E p \in 1..Len(document.projects) :
                                                   document.projects[p].alias = it.verify)
                  got  == last'.ret.groups[g].project_list
              IN /\ Len(got) = Len(kept)
                 /\ \A i \in 1..Len(got) :
                       /\ got[i].verify = kept[i].verify
                       /\ \E p \in 1..Len(last'.ret.projects) :
                             /\ last'.ret.projects[p].alias = got[i].verify
                             /\ last'.ret.projects[p].id = got[i].id ]_vars

\* C20: after any load of projects.json a document is returned in which every
\* entry of every group's project_list resolves to a project with that id and
\* that alias.
C20_EntriesResolve ==
    [][ StepOf("load", 0) => (last'.ok /\ Resolves(last'.ret)) ]_vars

\* the rows of doc carry pairwise different aliases
UniqueAliases(doc) ==
    \A i, j \in 1..Len(doc.projects) :
        doc.projects[i].alias = doc.projects[j].alias => i = j

\* C21: after any load of projects.json the returned groups carry the ids
\* 1..M in file order and last_group_id = M, and every project's group field
\* is null or the id of a returned group: null when it named a group id that
\* is in no group of the file, the new id of the group when it named one.
C21_GroupsRenumbered ==
    [][ (StepOf("load", 0) /\ document.present) =>
           LET M == Len(document.groups)
           IN /\ last'.ok
              /\ Len(last'.ret.groups) = M
              /\ \A g \in 1..M : last'.ret.groups[g].id = g
              /\ last'.ret.last_group_id = M
              /\ Len(last'.ret.projects) = Len(document.projects)
              /\ \A i \in 1..Len(document.projects) :
                    LET old == document.projects[i].group
                        new == last'.ret.projects[i].group
                    IN /\ new = NoneVal \/ new \in 1..M
                       /\ (\A g \in 1..M : document.groups[g].id # old) => new = NoneVal
                       /\ (\E g \in 1..M : document.groups[g].id = old)
                             => (new \in 1..M /\ document.groups[new].id = old) ]_vars

\* C22: after any load of projects.json, with its healing, no two projects of
\* the returned document have the same alias, whatever the aliases on disk.
C22_AliasesUnique ==
    [][ StepOf("heal", 0) => UniqueAliases(last'.ret) ]_vars

\* ------------------------------------------------------------------------
\* The backup file
\* ------------------------------------------------------------------------
\* C23: load never raises for a missing or unparsable file. An absent file
\* gives validate(default); an unparsable file with a .bak that parses is
\* restored from the .bak and the validated, healed content of the .bak is
\* returned; with the .bak absent or unparsable too, validate(default) is
\* written to the file and returned.
C23_LoadNeverRaises ==
    [][ (StepOf("load", 0) /\ ~ Parses(document)) =>
           /\ last'.ok
           /\ ~ document.present =>
                 (last'.ret = validate(default_arg) /\ document' = document)
           /\ (document.present /\ Parses(backup)) =>
                 /\ last'.ret = reindex_and_heal(validate(Content(backup)))
                 /\ Parses(document')
           /\ (document.present /\ ~ Parses(backup)) =>
                 /\ last'.ret = validate(default_arg)
                 /\ document' = File(validate(default_arg)) ]_vars

\* x is a value of the type int
IsInt(x) == x \in Int /\ x # BadVal /\ x # NoneVal

\* doc matches SCHEMAS["projects.json"]: exactly the declared keys, the ids
\* and counters integers, every group field an integer or null
MatchesProjectsSchema(doc) ==
    /\ DOMAIN doc = {"last_id", "last_group_id", "projects", "groups"}
    /\ IsInt(doc.last_id) /\ IsInt(doc.last_group_id)
    /\ \A i \in 1..Len(doc.projects) :
          /\ DOMAIN doc.projects[i] = {"id", "alias", "group"}
          /\ IsInt(doc.projects[i].id)
          /\ doc.projects[i].group = NoneVal \/ IsInt(doc.projects[i].group)
    /\ \A g \in 1..Len(doc.groups) :
          /\ IsInt(doc.groups[g].id)
          /\ \A i \in 1..Len(doc.groups[g].project_list) :
                IsInt(doc.groups[g].project_list[i].id)

\* C24: the load of an existing projects.json that parses and whose content
\* has mistyped, missing or undeclared fields does not raise, and the value
\* it returns matches the schema at every position, the healers included.
C24_LoadMatchesSchema ==
    [][ (StepOf("load", 0) /\ Parses(document)) =>
           (last'.ok /\ MatchesProjectsSchema(last'.ret)) ]_vars

\* C25: load writes the file if and only if the validated and healed value
\* differs from the value parsed from disk: when they differ the file holds
\* the returned value when load returns, when they are equal nothing is
\* written.
C25_LoadWritesIffChanged ==
    [][ (StepOf("load", 0) /\ Parses(document)) =>
           LET parsed == Content(document)
               healed == reindex_and_heal(validate(parsed))
           IN /\ last'.ok
              /\ healed # parsed => (last'.trace # << >> /\ document' = File(last'.ret))
              /\ healed = parsed => (last'.trace = << >> /\ document' = document) ]_vars

\* the trace shows a write of the .tmp file followed by its rename over the file
InstalledByRename(trace, name) ==
    \E i \in 1..Len(trace) :
        /\ trace[i] = FileEv("tmp", name)
        /\ i < Len(trace)
        /\ trace[i + 1] = FileEv("replace", name)
        /\ \A j \in 1..Len(trace) : trace[j] # FileEv("write", name)

\* C26: after a save of any document has returned successfully, the target
\* file holds validate(data), installed by a write of a temp file and a rename
\* over the target, and the .bak file of the target holds the same content as
\* the target.
C26_SaveInstallsAndBacksUp ==
    [][ /\ \A data \in SaveDocuments : \A copy_ok \in BOOLEAN :
              save_projects(data, TRUE, copy_ok) =>
                 /\ document' = File(validate(data))
                 /\ InstalledByRename(last'.trace, "projects.json")
                 /\ backup' = document'
        /\ \A data \in HistoryDocuments :
              save_cached_history(data, TRUE) =>
                 /\ history'.file = File(validate_history(data))
                 /\ InstalledByRename(last'.trace, "history.json")
                 /\ history'.bak = history'.file ]_vars

\* ------------------------------------------------------------------------
\* The schema validator
\* ------------------------------------------------------------------------
\* v matches s structurally: a value of the type, a value of a member type,
\* a dict with exactly the declared keys whose values match, a list whose
\* elements match the item schema
RECURSIVE Matches(_, _)
Matches(v, s) ==
    CASE s.kind = "type"  -> is_instance(v, s.t)
      [] s.kind = "union" -> \E i \in 1..Len(s.ts) : is_instance(v, s.ts[i])
      [] s.kind = "map"   -> /\ v.t = "dict"
                             /\ DOMAIN v.fields = DOMAIN s.fields
                             /\ \A key \in DOMAIN s.fields : Matches(v.fields[key], s.fields[key])
      [] s.kind = "list"  -> /\ v.t = "list"
                             /\ s.sub # << >> =>
                                   \A i \in 1..Len(v.items) : Matches(v.items[i], s.sub[1])

\* C27: for every value x and schema s, validate(x, s) returns without raising
\* and its result matches s structurally.
C27_ValidateMatchesSchema ==
    last.op = "validate" => (last.ok /\ Matches(last.ret, input.schema))

\* C28: validate is idempotent: validate(validate(x, s), s) = validate(x, s).
C28_ValidateIdempotent ==
    [][ last'.op = "revalidate" => last'.ret = last.ret ]_vars

\* a dict that validate changed has been validated a second time
C28_Witness ==
    /\ last.op = "revalidate"
    /\ input.schema.kind = "map"
    /\ input.value.t = "dict"
    /\ last.ret # input.value

\* C29: for a union schema (t1, ..., tn) validate returns a value of a member
\* type unchanged, and for a value of no member type the default of the first
\* member t1.
C29_UnionDefault ==
    (last.op = "validate" /\ input.schema.kind = "union") =>
        IF \E i \in 1..Len(input.schema.ts) : is_instance(input.value, input.schema.ts[i])
        THEN last.ret = input.value
        ELSE last.ret = default_for_type(TypeS(input.schema.ts[1]))

\* ------------------------------------------------------------------------
\* The watcher lock at the end of start_project
\* ------------------------------------------------------------------------
\* the lock file names a pid at which a process runs: the watcher, or a
\* process that got the pid after the watcher ended; a zombie runs no more
LockLive(lk, pt) == lk \in DOMAIN pt /\ pt[lk] \in {"alive", "denied", "foreign"}

\* C30: at the end of a successful start_project a new watcher is spawned if
\* and only if the lock file is absent, unreadable, or names a pid that is
\* not a live process; when it names a live pid no watcher is spawned; and
\* start_project never writes or deletes the lock file.
C30_WatcherSpawnedIffNoLiveLock ==
    [][ \A id \in ProjectIds :
           (StepOf("start", id) /\ last'.ok) =>
              \A v \in Views(procs) :
                 start_project(id, TRUE, TRUE, TRUE, v) =>
                    /\ (watcher' # watcher) <=> ~ LockLive(lock, Table(procs, v))
                    /\ LockLive(lock, Table(procs, v)) => nextPid' = nextPid + 1
                    /\ lock' = lock ]_vars

\* ------------------------------------------------------------------------
\* What the reconciliation leaves alone
\* ------------------------------------------------------------------------
\* the fields of an entry that no reconciliation sets
Frame(e) == [project_id |-> e.project_id, alias |-> e.alias, viewers |-> e.viewers,
             start_time |-> e.start_time, log_path |-> e.log_path, cmd |-> e.cmd]

\* C33: get_services_status never adds or removes registry keys and never
\* changes project_id, alias, viewers, start_time, log_path or cmd of an
\* entry; an entry that is running with a live process is returned unchanged;
\* and a call that corrects nothing does not write the registry file.
C33_StatusFrame ==
    [][ StepOf("status", 0) =>
           /\ DOMAIN last'.ret = DOMAIN registry
           /\ DOMAIN registry' = DOMAIN registry
           /\ \A k \in DOMAIN registry :
                 /\ Frame(last'.ret[k]) = Frame(registry[k])
                 /\ Frame(registry'[k]) = Frame(registry[k])
                 /\ (/\ registry[k].status = "running"
                     /\ registry[k].pid \in Pids
                     /\ procs[registry[k].pid] = "alive")
                       => (last'.ret[k] = registry[k] /\ registry'[k] = registry[k])
           /\ last'.ret = registry => (last'.trace = << >> /\ registry' = registry) ]_vars

\* a get_services_status that demoted an entry with viewers and returned
\* another entry, running with a live process, as it was
C33_Witness ==
    /\ last.op = "status"
    /\ last.trace # << >>
    /\ \E k \in DOMAIN last.ret :
          last.ret[k].status = "stopped" /\ last.ret[k].viewers # << >>
    /\ \E k \in DOMAIN last.ret :
          /\ last.ret[k].status = "running"
          /\ procs[last.ret[k].pid] = "alive"

\* ------------------------------------------------------------------------
\* The watcher's iteration step by step, beside one foreground command
\* ------------------------------------------------------------------------
\* the watcher after 'state = self._load_state()' and the probes: its local
\* variables state, dirty and active_count
Polled(state, dirty, n) == [pc |-> "polled", state |-> state, dirty |-> dirty, active_count |-> n]

\* 2. sleep, read the file and probe every running entry
WatcherPoll(w, v) ==
    /\ last = NoCall
    /\ disk = "whole"
    /\ UNCHANGED <<disk, document, backup, history, input>>
    /\ w \in DOMAIN watcher
    /\ procs[w] = "alive"
    /\ watcher[w].pc = "sleeping"
    /\ LET pt    == Table(procs, v)
           state == watch_state(registry, pt)
       IN watcher' = [watcher EXCEPT
                         ![w] = Polled(state, state # registry, active_count(registry, pt))]
    /\ last' = NoCall
    /\ UNCHANGED <<registry, projects, procs, parent, nextPid, lock, owner, logs>>

\* a watcher that writes its state back in every iteration
WatcherSave_always(w) ==
    /\ last = NoCall
    /\ disk = "whole"
    /\ UNCHANGED <<disk, document, backup, history, input>>
    /\ w \in DOMAIN watcher
    /\ procs[w] = "alive"
    /\ watcher[w].pc = "polled"
    /\ registry' = save_state(registry, watcher[w].state, TRUE)
    /\ watcher' = [watcher EXCEPT
                      ![w] = [pc |-> IF watcher[w].active_count = 0 THEN "leaving"
                                     ELSE "sleeping"]]
    /\ last' = NoCall
    /\ UNCHANGED <<projects, procs, parent, nextPid, lock, owner, logs>>

\* 3. 'if dirty: self._save_state(state)' with the state read at the poll, and
\* 4. the suicide check
WatcherSave(w) ==
    /\ last = NoCall
    /\ disk = "whole"
    /\ UNCHANGED <<disk, document, backup, history, input>>
    /\ w \in DOMAIN watcher
    /\ procs[w] = "alive"
    /\ watcher[w].pc = "polled"
    /\ registry' = IF watcher[w].dirty THEN save_state(registry, watcher[w].state, TRUE)
                   ELSE registry
    /\ watcher' = [watcher EXCEPT
                      ![w] = [pc |-> IF watcher[w].active_count = 0 THEN "leaving"
                                     ELSE "sleeping"]]
    /\ last' = NoCall
    /\ UNCHANGED <<projects, procs, parent, nextPid, lock, owner, logs>>

\* the finally block: unlink watcher.pid if it exists; the process ends
WatcherExit(w) ==
    /\ last = NoCall
    /\ UNCHANGED <<disk, document, backup, history, input>>
    /\ w \in DOMAIN watcher
    /\ procs[w] = "alive"
    /\ watcher[w].pc = "leaving"
    /\ lock' = NoneVal
    /\ watcher' = [watcher EXCEPT ![w].pc = "done"]
    /\ procs' = [procs EXCEPT ![w] = "dead"]
    /\ last' = NoCall
    /\ UNCHANGED <<registry, projects, parent, nextPid, owner, logs>>

\* one foreground command at a time, the watcher processes between its calls
\* and the watcher's own steps; processes of projects end, no watcher is
\* killed from outside, no pid is reused
RaceNext ==
    \/ Return
    \/ \E v \in LiveViews(procs) : get_services_status(v)
    \/ \E id \in ProjectIds, spawn_ok \in BOOLEAN, v \in LiveViews(procs) :
          start_project(id, spawn_ok, TRUE, TRUE, v)
    \/ \E id \in ProjectIds, v \in LiveViews(procs) : stop_project(id, v)
    \/ \E w \in Pids : WatcherStart(w)
    \/ \E w \in Pids, v \in LiveViews(procs) : WatcherPoll(w, v)
    \/ \E w \in Pids : WatcherSave(w)
    \/ \E w \in Pids : WatcherExit(w)
    \/ \E p \in Pids \ WatcherPids : Die(p)

RaceSpec == Init /\ [][RaceNext]_vars

\* ------------------------------------------------------------------------
\* A start_project that fails
\* ------------------------------------------------------------------------
\* the commands that start and stop projects, with every way a start_project
\* can fail, beside the watcher and the processes ending
StartNext ==
    \/ Return
    \/ \E v \in LiveViews(procs) : get_services_status(v)
    \/ \E id \in ProjectIds, spawn_ok, save_ok, watch_ok \in BOOLEAN, v \in LiveViews(procs) :
          start_project(id, spawn_ok, save_ok, watch_ok, v)
    \/ \E id \in ProjectIds, v \in LiveViews(procs) : stop_project(id, v)
    \/ \E w \in Pids : WatcherStart(w)
    \/ \E w \in Pids, v \in LiveViews(procs) : WatcherIterate(w, v)
    \/ \E p \in Pids : Die(p)

StartSpec == Init /\ [][StartNext]_vars

\* C39: if start_project(id) returns (false, message) for any reason, an
\* error raised while spawning the child or while ensuring the watcher
\* included, no process started by the call is left running and the registry
\* holds no running entry for id that the call wrote.
C39_FailedStartLeavesNothing ==
    [][ \A id \in ProjectIds :
           (StepOf("start", id) /\ ~ last'.ok) =>
              /\ \A p \in Pids : procs'[p] = "alive" => procs[p] = "alive"
              /\ \A k \in DOMAIN registry' :
                    (registry'[k].project_id = id /\ registry'[k].status = "running")
                       => (k \in DOMAIN registry /\ registry'[k] = registry[k]) ]_vars

\* C36: under any interleaving of one foreground command with the watcher's
\* poll iterations, every live process that a successful start_project
\* spawned is referenced by a running entry holding its pid until a stop
\* kills it: no write of the watcher drops or demotes the entry of a live
\* child.
C36_LiveChildReferenced ==
    \A p \in Pids :
       (procs[p] = "alive" /\ owner[p] # 0) =>
          \E k \in DOMAIN registry :
             registry[k].status = "running" /\ registry[k].pid = p

\* some watcher process runs: it polls, or was spawned and is starting, or
\* is about to leave
Watching == \E w \in WatcherPids : procs[w] = "alive"

\* C31: whenever a successful start_project has returned and its entry is
\* still running, a watcher is active or has been spawned and is starting,
\* for every interleaving of start_project with the watcher's steps (so that
\* the entry of a process that dies is demoted without a foreground command).
C31_RunningEntryIsWatched ==
    (last = NoCall /\ \E k \in DOMAIN registry : registry[k].status = "running") => Watching

\* ------------------------------------------------------------------------
\* The writes of the watcher
\* ------------------------------------------------------------------------
\* the step is a step of watcher process w
WatcherStep(w) == w \in DOMAIN watcher /\ watcher'[w] # watcher[w]

\* C34: a poll iteration of the watcher writes the registry at most once, and
\* only when it demoted at least one entry in that iteration; an iteration
\* that finds every running entry alive, or no running entry, leaves the
\* registry file untouched.
C34_WatcherWritesOnlyOnDemotion ==
    [][ \A w \in Pids :
           WatcherStep(w) =>
              /\ watcher[w].pc # "polled" => registry' = registry
              /\ watcher'[w].pc = "polled" =>
                    /\ watcher'[w].dirty <=>
                          \E k \in DOMAIN registry :
                             /\ registry[k].status = "running"
                             /\ watcher'[w].state[k].status = "stopped"
                    /\ (\A k \in DOMAIN registry :
                           registry[k].status = "running" =>
                              (registry[k].pid \in Pids /\ procs[registry[k].pid] = "alive"))
                          => ~ watcher'[w].dirty
              /\ watcher[w].pc = "polled" =>
                    /\ ~ watcher[w].dirty => registry' = registry
                    /\ registry' # registry => registry' = watcher[w].state ]_vars

\* a watcher that has demoted one entry and found another alive, about to
\* write
C34_Witness ==
    \E w \in WatcherPids :
       /\ watcher[w].pc = "polled"
       /\ watcher[w].dirty
       /\ watcher[w].active_count > 0

\* C37: whenever the lock file exists, the pid it holds is that of a watcher
\* that is in its loop or of one that was killed without cleanup; and a
\* watcher that terminates removes the lock only when the lock holds its own
\* pid, so that the exit of one watcher never deletes the lock of another
\* live watcher.
C37_LockIsTheHoldersOwn ==
    [][ /\ lock' # NoneVal =>
              /\ lock' \in DOMAIN watcher'
              /\ watcher'[lock'].pc \in {"sleeping", "polled", "leaving"}
        /\ \A w \in Pids :
              (WatcherStep(w) /\ watcher'[w].pc = "done" /\ lock' # lock) => lock = w ]_vars

\* ------------------------------------------------------------------------
\* Termination of the corrupt load
\* ------------------------------------------------------------------------
\* C35: loading a structurally corrupt registry terminates: the nuke_all that
\* the load triggers (through stop_all it reads the registry again) completes
\* in a bounded number of steps and is not triggered again and again before
\* the file has been reset to {}: every load of a corrupt file returns
\* without exhausting the interpreter's stack and leaves the file reset.
C35_CorruptLoadTerminates ==
    [][ \A op \in {"status", "start", "stop", "register"} :
           (disk = "garbage" /\ last'.op = op) =>
              /\ load_state_corrupt(1) # "RecursionError"
              /\ last'.msg # "RecursionError"
              /\ disk' = "whole" ]_vars

\* ------------------------------------------------------------------------
\* The load as a fixed point
\* ------------------------------------------------------------------------
\* C38: load reaches a fixed point in one pass: for any content of
\* projects.json on disk, a load returns a value, and a second load made
\* right after it returns the same value and writes nothing (validation
\* followed by the healers maps the file the first load left to itself).
C38_LoadIsFixedPoint ==
    [][ (StepOf("load", 0) /\ document.present) =>
           /\ last'.ok
           /\ Parses(document')
           /\ LET parsed == Content(document')
                  healed == reindex_and_heal(validate(parsed))
              IN /\ healed = parsed
                 /\ logic_repair(healed) = last'.ret ]_vars

\* ------------------------------------------------------------------------
\* The two reconciliations side by side, on any registry
\* ------------------------------------------------------------------------
\* the pid field of an entry in a services.json written by any hand: null, 0
\* or a pid
HandPids == {NoneVal, 0, 1, 2}

\* an entry of such a file
HandEntry(id, status, pid) ==
    [project_id |-> id, alias |-> "api", pid |-> pid, viewers |-> << >>, status |-> status,
     start_time |-> StartTime, log_path |-> str_id(id), cmd |-> CmdSleep]

\* the registries looked at: any subset of the keys, every entry running or
\* stopped with any of the pid fields
HandRegistries ==
    UNION { [ {str_id(i) : i \in S} ->
                 {HandEntry(i, s, p) : i \in S, s \in {"running", "stopped"}, p \in HandPids} ]
            : S \in SUBSET ProjectIds }

\* a registry of any content (_load_state hands back whatever mapping the
\* file holds), the processes at the pids 1 and 2 running or ended, and a
\* watcher in its loop
ReconcileInit ==
    /\ registry \in {r \in HandRegistries : \A k \in DOMAIN r : str_id(r[k].project_id) = k}
    /\ projects = << >>
    /\ procs \in {ps \in [Pids -> {"unborn", "alive", "dead"}] :
                     /\ ps[MaxPid] = "alive"
                     /\ \A p \in Pids : (ps[p] = "unborn") <=> (2 < p /\ p < MaxPid)}
    /\ parent = [p \in Pids |-> 0]
    /\ nextPid = MaxPid + 1
    /\ lock = MaxPid
    /\ watcher = [w \in {MaxPid} |-> [pc |-> "sleeping"]]
    /\ owner = [p \in Pids |-> 0]
    /\ logs = [i \in ProjectIds |-> "empty"]
    /\ last = NoCall
    /\ disk = "whole"
    /\ document = NoDocument
    /\ backup = NoDocument
    /\ history = NoHistory
    /\ input = NoInput

ReconcileNext ==
    \/ Return
    \/ \E v \in Views(procs) : get_services_status(v)
    \/ \E w \in Pids, v \in Views(procs) : WatcherIterate(w, v)

ReconcileSpec == ReconcileInit /\ [][ReconcileNext]_vars

\* C32: for every registry state and process table, a poll iteration of the
\* watcher and a get_services_status call make the same liveness decision for
\* every running entry (live, absent, zombie, AccessDenied, pid null or 0)
\* and leave the same registry document on disk.
C32_SameReconciliation ==
    [][ \A v \in Views(procs) :
           LET pt == Table(procs, v)
           IN /\ get_services_status(v) =>
                    /\ \A k \in DOMAIN registry :
                          registry[k].status = "running" =>
                             (last'.ret[k].status = "running" <=> is_alive(registry[k], pt))
                    /\ registry' = watch_state(registry, pt)
              /\ (\E w \in Pids : WatcherIterate(w, v)) =>
                    registry' = status_state(registry, pt) ]_vars

====
